---- MODULE Spec2Model ----
(***************************************************************************)
(* WebsocketHandler of connectordb/_websocket.py as a state machine.       *)
(*                                                                         *)
(* Threads: the API callers, one thread per WebSocketApp (run_forever,     *)
(* which delivers on_open / on_error / on_close / on_ping) and one thread  *)
(* per threading.Timer (reconnector, pingtimer).  Every thread has a       *)
(* program counter named after the source line it is about to execute and  *)
(* a stack of return labels.  One step is one access to shared state.      *)
(***************************************************************************)
EXTENDS Integers, Sequences, FiniteSets, TLC

\* ---------------------------------------------------------------- bounds
\* the pools of threads and objects
NumCallers == 2
MaxTransports == 2
MaxTimers == 2
\* how much of the pools each specification uses
ApiCallers == 1
ApiTransports == 1
ApiTimers == 1
RaceCallers == 2
RaceTransports == 2
RaceTimers == 1
SeqCallers == 1
SeqTransports == 1
SeqTimers == 1
MsgCallers == 1
MsgTransports == 1
MsgTimers == 1
WaitCallers == 2
WaitTransports == 2
WaitTimers == 2
LoopCallers == 0
LoopTransports == 1
LoopTimers == 2
\* how many different callbacks the callers register
ApiCallbacks == 1
MsgCallbacks == 2
\* the clock: how far one step moves it and where it stops, in seconds
ClockStep == 1000
MaxClock == 2000
BackoffCallers == 0
ClockCallers == 0
ClockTransports == 1
ClockTimers == 2
\* the number of steps after which the clock of the ping timer stops
MaxBeats == 6
PingCallers == 0
FrameCallers == 0
AuthCallers == 1
AuthTransports == 1
AuthTimers == 1
MaxLists == 2
FrameTransports == 1
FrameTimers == 1
PairCallers == 2
PairTransports == 2
PairTimers == 2
SendCallers == 1
SendTransports == 1
SendTimers == 2
PingTransports == 1
PingTimers == 2
BackoffTransports == 1
BackoffTimers == 2

\* ------------------------------------------------------ program constants
\* seconds without a ping after which the connection counts as lost
connection_ping_timeout == 60 * 2
\* the delays are floats of seconds in the program and whole milliseconds
\* here; a quotient is rounded down
Milli == 1000
\* the ceiling of the delay between two attempts
reconnect_time_max_seconds == 8 * 60 * Milli
\* 1.5, as numerator and denominator
reconnect_time_backoff_multiplier == <<3, 2>>
\* the step of the clock where the ping timer is followed: half the
\* timeout, in seconds; and the age of the last ping at which it stops
Beat == connection_ping_timeout \div 2
MaxAge == MaxBeats * Beat
\* the first delay, and the floor
reconnect_time_starting_seconds == 1 * Milli
\* random.uniform(-0.2, 0.2), in tenths: its two ends and the middle
Jitter == {-2, 0, 2}

\* ----------------------------------------------------------------- inputs
\* Strings are sequences of characters: the key is built by concatenation
\* and taken apart again by split(":", 1).
\* The (stream, transform) pairs the callers use: the stream "a:", whose
\* name holds the separator, with the default transform "", and the stream
\* "a" with the transform "t".
PlainPairs == { << <<"a", ":">>, <<>> >>, << <<"a">>, <<"t">> >> }
\* streams for line 295: "u/d/s/downlink", alone and with a transform, a
\* stream that ends in "/downlink" with two "/" only, and one with three
\* "/" that does not end in "/downlink"
DownPairs ==
    { << <<"u", "/", "d", "/", "s", "/", "downlink">>, <<>> >>,
      << <<"u", "/", "d", "/", "s", "/", "downlink">>, <<"t">> >>,
      << <<"d", "/", "s", "/", "downlink">>, <<>> >>,
      << <<"u", "/", "d", "/", "s", "/", "t", "/", "downlink">>, <<>> >>,
      << <<"u", "/", "d", "/", "s", "/", "x">>, <<>> >> }
\* the stream whose messages are acknowledged, alone
AckPairs == { << <<"u", "/", "d", "/", "s", "/", "downlink">>, <<>> >> }
CallbackNames == <<"f", "g", "h">>
\* what setauth is given: None, or an auth object that sets one header
Auths == { "None", "k1" }
\* the list objects self.headers may name
ListIds == 0..MaxLists
\* what a callback returns: True, False, None, or a payload of its own
Results == { "True", "False", "None", "d1" }

Callers == { <<"c", i>> : i \in 1..NumCallers }
Transports == 1..MaxTransports
WsThreads == { <<"w", i>> : i \in Transports }
TimerIds == 1..MaxTimers
TimerThreads == { <<"t", i>> : i \in TimerIds }
Threads == Callers \cup WsThreads \cup TimerThreads

VARIABLES
    cap,                \* how many callers, transports and timers may be in use,
                        \* and what a specification follows
    status,             \* self._status
    subscriptions,      \* self.subscriptions: key -> callback
    ws,                 \* self.ws: 0 is None, -1 a transport whose run has
                        \* ended, else a transport
    ws_thread,          \* self.ws_thread: 0 is None, -1 a thread that has ended,
                        \* else the transport the thread runs
    ws_openlock,        \* self.ws_openlock is held
    subscription_lock,  \* self.subscription_lock is held
    ws_sendlock,        \* self.ws_sendlock is held
    pingtimer,          \* self.pingtimer: 0 is None, -1 a timer that has fired
                        \* or was cancelled, else a pending timer
    pingAge,            \* time.time() - self.lastpingtime, in seconds: 0 at a
                        \* ping, more than the timeout once it has run out
    sock,               \* sock[t]: the socket of transport t is connected
    reconnect_time,     \* self.reconnect_time, in milliseconds
    connected_time,     \* self.connected_time, in seconds
    disconnected_time,  \* self.disconnected_time, in seconds
    now,                \* time.time(), in seconds
    pingDue,            \* seconds until the Timer self.pingtimer fires, where
                        \* the clock is followed
    headers,            \* self.headers: the list object it names
    lists,              \* lists[i]: the header strings list object i holds
    wshdr,              \* wshdr[t]: the list object transport t was given
                        \* as header= at line 157
    pc, stack,          \* per thread: next source line, return labels
    op, args,           \* per thread: the running (or last) top-level call
    ret,                \* per thread: the value the last call returned
    cmd,                \* per thread: the command handed to send()
    todo,               \* per thread: keys __resubscribe has still to visit
    log                 \* per thread: what the current top-level call did

timing == <<reconnect_time, connected_time, disconnected_time, now, pingDue>>
auth == <<headers, lists, wshdr>>
shared == <<timing, auth, cap, status, subscriptions, ws, ws_thread, ws_openlock, subscription_lock,
            ws_sendlock, pingtimer, pingAge, sock>>
locals == <<pc, stack, op, args, ret, cmd, todo, log>>
vars == <<shared, locals>>

\* the streams of a specification: those of the calls, or, where the frames
\* of the server are followed in full, those line 295 tells apart
Pairs == IF cap.anyframe THEN DownPairs ELSE IF cap.acks THEN AckPairs ELSE PlainPairs

\* ---------------------------------------------------------------- helpers
\* stream + ":" + transform  (lines 120, 134)
Key(stream, transform) == stream \o <<":">> \o transform

\* index of the first ":" of a key, 0 when there is none
RECURSIVE FirstColon(_, _)
FirstColon(s, i) ==
    IF i > Len(s) THEN 0
    ELSE IF s[i] = ":" THEN i
    ELSE FirstColon(s, i + 1)

\* sub.split(":", 1)  (line 225): at most one split, at the first ":"
Split(sub) ==
    LET i == FirstColon(sub, 1)
    IN  IF i = 0 THEN << sub >>
        ELSE << SubSeq(sub, 1, i - 1), SubSeq(sub, i + 1, Len(sub)) >>

NoArgs == [stream |-> <<>>, transform |-> <<>>, cb |-> "none", basic_auth |-> "none"]
NoCmd == [e |-> "none", cmd |-> "none", arg |-> <<>>, transform |-> <<>>, d |-> "none",
          to |-> 0]

\* {"cmd": c, "arg": a, "transform": t} written to transport w
Cmd(c, a, t, w) ==
    [e |-> "send", cmd |-> c, arg |-> a, transform |-> t, d |-> "none", to |-> w]
Event(e, w) ==
    [e |-> e, cmd |-> "none", arg |-> <<>>, transform |-> <<>>, d |-> "none", to |-> w]

\* "/downlink", the 9 characters line 299 cuts off
Downlink == <<"/", "downlink">>
\* s.endswith(suffix)
EndsWith(s, suffix) ==
    /\ Len(s) >= Len(suffix)
    /\ SubSeq(s, Len(s) - Len(suffix) + 1, Len(s)) = suffix
\* s.count(ch)
Count(s, ch) == Cardinality({ i \in 1..Len(s) : s[i] = ch })

\* the dict operations of lines 43, 120, 134 and 179
EmptyMap == [k \in {} |-> "none"]
Put(m, k, v) == [x \in DOMAIN m \cup {k} |-> IF x = k THEN v ELSE m[x]]
Del(m, k) == [x \in DOMAIN m \ {k} |-> m[x]]

\* t * r and t / r for a ratio r
Times(t, r) == (t * r[1]) \div r[2]
Over(t, r) == (t * r[2]) \div r[1]

\* lines 189-202: the delay __reconnect computes from the delay t before it,
\* the length up of the last connection (disconnected_time - connected_time)
\* and the random number j
NextDelay(t, up, j) ==
    LET a == IF up > 15 * 60
             THEN reconnect_time_starting_seconds
             ELSE Times(t, reconnect_time_backoff_multiplier)
        b == IF a > reconnect_time_max_seconds THEN reconnect_time_max_seconds ELSE a
        c == (b * (10 + j)) \div 10
    IN  IF c < reconnect_time_starting_seconds THEN reconnect_time_starting_seconds ELSE c

\* where a thread is when its top-level call has returned or raised
Bottom(self) == IF self \in Callers THEN "done" ELSE "t_done"

Goto(self, l) == pc' = [pc EXCEPT ![self] = l]

\* call a method: run it from `entry`, come back at `back`
Call(self, entry, back) ==
    /\ pc' = [pc EXCEPT ![self] = entry]
    /\ stack' = [stack EXCEPT ![self] = <<back>> \o @]

\* a return value is kept where it is looked at: at the end of the
\* top-level call and at line 214
Used(self) == stack[self] = <<>> \/ Head(stack[self]) = "rfn215"

\* where the current method returns to, and the frames below it
After(self) == IF stack[self] = <<>> THEN Bottom(self) ELSE Head(stack[self])
Rest(self) == IF stack[self] = <<>> THEN <<>> ELSE Tail(stack[self])

\* return v to the caller of the current method
Return(self, v) ==
    /\ ret' = IF Used(self) THEN [ret EXCEPT ![self] = v] ELSE ret
    /\ pc' = [pc EXCEPT ![self] = After(self)]
    /\ stack' = [stack EXCEPT ![self] = Rest(self)]

\* an exception leaves every frame: a caller's call ends with it, a timer
\* thread dies, and the websocket library logs it and carries on after the
\* callback that raised it
Raise(self, exc) ==
    /\ ret' = IF self \in WsThreads THEN ret ELSE [ret EXCEPT ![self] = exc]
    /\ IF self \in WsThreads
       THEN pc' = [pc EXCEPT ![self] = stack[self][Len(stack[self])]]
       ELSE pc' = [pc EXCEPT ![self] = Bottom(self)]
    /\ stack' = [stack EXCEPT ![self] = <<>>]

\* the record of what a caller's call or a timer's run has done
Note(self, ev) ==
    log' = IF self \in WsThreads THEN log ELSE [log EXCEPT ![self] = Append(@, ev)]

\* a transport object nobody runs and nobody refers to can be allocated
FreeTransports ==
    { t \in 1..cap.transports : pc[<<"w", t>>] \in {"free", "new"} /\ t # ws /\ t # ws_thread }
NewTransport == CHOOSE t \in FreeTransports : \A u \in FreeTransports : t <= u

\* the callbacks the callers hand to subscribe
Callbacks == { CallbackNames[i] : i \in 1..cap.callbacks }

FreeTimers == { i \in 1..cap.timers : pc[<<"t", i>>] = "free" }
NewTimer == CHOOSE i \in FreeTimers : \A j \in FreeTimers : i <= j

\* the state __init__ leaves (lines 43-67)
\* lines 60-67: the delay and the two times after __init__; the clock of
\* the model starts at 0
Untimed ==
    /\ reconnect_time = reconnect_time_starting_seconds
    /\ connected_time = 0
    /\ disconnected_time = 0
    /\ now = 0
    /\ pingDue = 0

\* __init__ has called setauth (line 40) with the auth object it was given
Stored ==
    /\ headers = 0
    /\ lists = [i \in ListIds |-> IF i = 0 THEN <<"k0">> ELSE <<>>]
    /\ wshdr = [t \in Transports |-> 0]

Fresh ==
    /\ Untimed
    /\ Stored
    /\ status = "disconnected"
    /\ subscriptions = EmptyMap
    /\ ws = 0
    /\ ws_thread = 0
    /\ ws_openlock = FALSE
    /\ subscription_lock = FALSE
    /\ ws_sendlock = FALSE
    /\ pingtimer = 0
    /\ pingAge = 0
    /\ sock = [t \in Transports |-> FALSE]
    /\ pc = [th \in Threads |-> IF th \in Callers THEN "idle" ELSE "free"]
    /\ stack = [th \in Threads |-> <<>>]
    /\ op = [th \in Threads |-> "none"]
    /\ args = [th \in Threads |-> NoArgs]
    /\ ret = [th \in Threads |-> "none"]
    /\ cmd = [th \in Threads |-> NoCmd]
    /\ todo = [th \in Threads |-> {}]
    /\ log = [th \in Threads |-> <<>>]

Init ==
    /\ cap = [callers |-> ApiCallers, transports |-> ApiTransports, timers |-> ApiTimers,
              callbacks |-> ApiCallbacks, timed |-> FALSE,
              anyframe |-> FALSE, clock |-> FALSE, acks |-> FALSE]
    /\ Fresh

InitRace ==
    /\ cap = [callers |-> RaceCallers, transports |-> RaceTransports,
              timers |-> RaceTimers, callbacks |-> ApiCallbacks, timed |-> FALSE,
              anyframe |-> FALSE, clock |-> FALSE, acks |-> FALSE]
    /\ Fresh

\* ------------------------------------------------------------ API callers
\* a caller thread enters one of the public methods
CallSubscribe(self) ==
    /\ pc[self] = "idle"
    /\ self[2] <= cap.callers
    /\ \E p \in Pairs, f \in Callbacks :
         args' = [args EXCEPT ![self] = [stream |-> p[1], transform |-> p[2], cb |-> f,
                     basic_auth |-> "none"]]
    /\ op' = [op EXCEPT ![self] = "subscribe"]
    /\ ret' = [ret EXCEPT ![self] = "none"]
    /\ log' = [log EXCEPT ![self] = <<>>]
    /\ Goto(self, "sub112a")
    /\ UNCHANGED <<shared, stack, cmd, todo>>

CallUnsubscribe(self) ==
    /\ pc[self] = "idle"
    /\ self[2] <= cap.callers
    /\ \E p \in Pairs :
         args' = [args EXCEPT ![self] = [stream |-> p[1], transform |-> p[2], cb |-> "none",
                     basic_auth |-> "none"]]
    /\ op' = [op EXCEPT ![self] = "unsubscribe"]
    /\ ret' = [ret EXCEPT ![self] = "none"]
    /\ log' = [log EXCEPT ![self] = <<>>]
    /\ Goto(self, "uns125")
    /\ UNCHANGED <<shared, stack, cmd, todo>>

CallSetauth(self) ==
    /\ pc[self] = "idle"
    /\ self[2] <= cap.callers
    /\ \E a \in Auths :
         args' = [args EXCEPT ![self] = [NoArgs EXCEPT !.basic_auth = a]]
    /\ op' = [op EXCEPT ![self] = "setauth"]
    /\ ret' = [ret EXCEPT ![self] = "none"]
    /\ log' = [log EXCEPT ![self] = <<>>]
    /\ Goto(self, "auth72")
    /\ UNCHANGED <<shared, stack, cmd, todo>>

CallConnect(self) ==
    /\ pc[self] = "idle"
    /\ self[2] <= cap.callers
    /\ args' = [args EXCEPT ![self] = NoArgs]
    /\ op' = [op EXCEPT ![self] = "connect"]
    /\ ret' = [ret EXCEPT ![self] = "none"]
    /\ log' = [log EXCEPT ![self] = <<>>]
    /\ Goto(self, "con146")
    /\ UNCHANGED <<shared, stack, cmd, todo>>

CallDisconnect(self) ==
    /\ pc[self] = "idle"
    /\ self[2] <= cap.callers
    /\ args' = [args EXCEPT ![self] = NoArgs]
    /\ op' = [op EXCEPT ![self] = "disconnect"]
    /\ ret' = [ret EXCEPT ![self] = "none"]
    /\ log' = [log EXCEPT ![self] = <<>>]
    /\ Goto(self, "dis176")
    /\ UNCHANGED <<shared, stack, cmd, todo>>

\* -------------------------------------------------------------- subscribe
\* line 112: three reads of self.status, the `or` stops at the first match
Sub112a(self) ==
    /\ pc[self] = "sub112a"
    /\ Goto(self, IF status = "disconnected" THEN "sub113" ELSE "sub112b")
    /\ UNCHANGED <<shared, stack, op, args, ret, cmd, todo, log>>

Sub112b(self) ==
    /\ pc[self] = "sub112b"
    /\ Goto(self, IF status = "disconnecting" THEN "sub113" ELSE "sub112c")
    /\ UNCHANGED <<shared, stack, op, args, ret, cmd, todo, log>>

Sub112c(self) ==
    /\ pc[self] = "sub112c"
    /\ Goto(self, IF status = "connecting" THEN "sub113" ELSE "sub114")
    /\ UNCHANGED <<shared, stack, op, args, ret, cmd, todo, log>>

\* line 113: self.connect()
Sub113(self) ==
    /\ pc[self] = "sub113"
    /\ Call(self, "con146", "sub114")
    /\ Note(self, Event("connect", 0))
    /\ UNCHANGED <<shared, op, args, ret, cmd, todo>>

\* (mutant) the command goes out without the transform
Sub114_DropTransform(self) ==
    /\ pc[self] = "sub114"
    /\ IF status # "connected"
       THEN /\ Return(self, "False")
            /\ UNCHANGED <<cmd, log>>
       ELSE /\ cmd' = [cmd EXCEPT ![self] = Cmd("subscribe", args[self].stream, <<>>, 0)]
            /\ Call(self, "snd103", "sub119")
            /\ UNCHANGED <<ret, log>>
    /\ UNCHANGED <<shared, op, args, todo>>

\* (mutant) the status is not looked at: the command is sent in any state
Sub114_NoCheck(self) ==
    /\ pc[self] = "sub114"
    /\ cmd' = [cmd EXCEPT ![self] =
                 Cmd("subscribe", args[self].stream, args[self].transform, 0)]
    /\ Call(self, "snd103", "sub119")
    /\ UNCHANGED <<shared, op, args, todo, ret, log>>

\* lines 114-118: not connected returns False, else the subscribe command is sent
Sub114(self) ==
    /\ pc[self] = "sub114"
    /\ IF status # "connected"
       THEN /\ Return(self, "False")
            /\ UNCHANGED <<cmd, log>>
       ELSE /\ cmd' = [cmd EXCEPT ![self] =
                         Cmd("subscribe", args[self].stream, args[self].transform, 0)]
            /\ Call(self, "snd103", "sub119")
            /\ UNCHANGED <<ret, log>>
    /\ UNCHANGED <<shared, op, args, todo>>

\* (mutant) a callback that is already registered is kept
Sub119_KeepsFirst(self) ==
    /\ pc[self] = "sub119"
    /\ ~subscription_lock
    /\ LET key == Key(args[self].stream, args[self].transform) IN
       /\ subscriptions' = IF key \in DOMAIN subscriptions
                           THEN subscriptions
                           ELSE Put(subscriptions, key, args[self].cb)
       /\ Note(self, [Event("record", 0) EXCEPT
                        !.arg = key,
                        !.cmd = IF key \in DOMAIN subscriptions
                                THEN subscriptions[key] ELSE "none"])
    /\ Return(self, "True")
    /\ UNCHANGED <<timing, auth, cap, status, ws, ws_thread, ws_openlock, subscription_lock, ws_sendlock,
                   pingtimer, pingAge, sock, op, args, cmd, todo>>

\* lines 119-121: under the subscription lock, store the callback; return True
Sub119(self) ==
    /\ pc[self] = "sub119"
    /\ ~subscription_lock
    /\ subscriptions' = Put(subscriptions,
                            Key(args[self].stream, args[self].transform), args[self].cb)
    /\ LET key == Key(args[self].stream, args[self].transform) IN
       Note(self, [Event("record", 0) EXCEPT
                      !.arg = key,
                      !.cmd = IF key \in DOMAIN subscriptions
                              THEN subscriptions[key] ELSE "none"])
    /\ Return(self, "True")
    /\ UNCHANGED <<timing, auth, cap, status, ws, ws_thread, ws_openlock, subscription_lock, ws_sendlock,
                   pingtimer, pingAge, sock, op, args, cmd, todo>>

\* line 103 entered without waiting for the lock
Snd103_NoLock(self) ==
    /\ pc[self] = "snd103"
    /\ ws_sendlock' = TRUE
    /\ Goto(self, "snd104")
    /\ UNCHANGED <<timing, auth, cap, status, subscriptions, ws, ws_thread, ws_openlock, subscription_lock,
                   pingtimer, pingAge, sock,
                   stack, op, args, ret, cmd, todo, log>>

\* ------------------------------------------------------------------- send
\* line 103: with self.ws_sendlock
Snd103(self) ==
    /\ pc[self] = "snd103"
    /\ ~ws_sendlock
    /\ ws_sendlock' = TRUE
    /\ Goto(self, "snd104")
    /\ UNCHANGED <<timing, auth, cap, status, subscriptions, ws, ws_thread, ws_openlock, subscription_lock,
                   pingtimer, pingAge, sock,
                   stack, op, args, ret, cmd, todo, log>>

\* line 104: self.ws.send(...) writes to the socket of the transport self.ws
\* names; without a transport or with its socket closed it raises, and the
\* `with` of send (and of __resubscribe) releases on the way out
Snd104(self) ==
    /\ pc[self] = "snd104"
    /\ ws_sendlock' = FALSE
    /\ cmd' = [cmd EXCEPT ![self] = NoCmd]
    /\ todo' = IF ws > 0 /\ sock[ws] THEN todo ELSE [todo EXCEPT ![self] = {}]
    /\ IF ws > 0 /\ sock[ws]
       THEN /\ log' = [log EXCEPT ![self] = Append(@, [cmd[self] EXCEPT !.to = ws])]
            /\ Return(self, "None")
            /\ UNCHANGED subscription_lock
       ELSE /\ Raise(self, "ConnectionClosed")
            /\ subscription_lock' =
                 IF stack[self] # <<>> /\ Head(stack[self]) = "rsb223"
                 THEN FALSE ELSE subscription_lock
            /\ UNCHANGED log
    /\ UNCHANGED <<timing, auth, cap, status, subscriptions, ws, ws_thread, ws_openlock,
                   pingtimer, pingAge, sock, op, args>>

\* ---------------------------------------------------------------- setauth
\* a list object no transport that may still connect was given, and that
\* self.headers does not name
FreeLists ==
    { i \in ListIds : /\ i # headers
                      /\ \A t \in Transports : pc[<<"w", t>>] # "free" => wshdr[t] # i }
NewList == CHOOSE i \in FreeLists : \A j \in FreeLists : i <= j

\* line 72 without the new list: the headers are added to the old ones
Auth72_KeepsHeaders(self) ==
    /\ pc[self] = "auth72"
    /\ FreeLists # {}
    /\ IF args[self].basic_auth = "None"
       THEN Return(self, "None")
       ELSE Goto(self, "auth85") /\ UNCHANGED <<stack, ret>>
    /\ UNCHANGED <<shared, op, args, cmd, todo, log>>

\* lines 72-74: self.headers = [], a new list; without an auth object that
\* is all
Auth72(self) ==
    /\ pc[self] = "auth72"
    /\ FreeLists # {}
    /\ headers' = NewList
    /\ lists' = [lists EXCEPT ![NewList] = <<>>]
    /\ IF args[self].basic_auth = "None"
       THEN Return(self, "None")
       ELSE Goto(self, "auth85") /\ UNCHANGED <<stack, ret>>
    /\ UNCHANGED <<timing, wshdr, cap, status, subscriptions, ws, ws_thread, ws_openlock,
                   subscription_lock, ws_sendlock, pingtimer, pingAge, sock,
                   op, args, cmd, todo, log>>

\* lines 82-86: the auth object writes its header into the extractor, and
\* the header is appended to the list self.headers names now
Auth85(self) ==
    /\ pc[self] = "auth85"
    /\ lists' = [lists EXCEPT ![headers] = Append(@, args[self].basic_auth)]
    /\ Return(self, "None")
    /\ UNCHANGED <<timing, headers, wshdr, cap, status, subscriptions, ws, ws_thread,
                   ws_openlock, subscription_lock, ws_sendlock, pingtimer, pingAge, sock,
                   op, args, cmd, todo, log>>

\* ---------------------------------------------------------------- connect
\* lines 146-147: wait until no connection attempt holds the open lock
Con146(self) ==
    /\ pc[self] = "con146"
    /\ ~ws_openlock
    /\ ws_openlock' = TRUE
    /\ Goto(self, "con147")
    /\ UNCHANGED <<timing, auth, cap, status, subscriptions, ws, ws_thread, subscription_lock, ws_sendlock,
                   pingtimer, pingAge, sock,
                   stack, op, args, ret, cmd, todo, log>>

\* a threading.Lock is released by whoever calls release(); releasing an
\* unlocked lock raises
Con147(self) ==
    /\ pc[self] = "con147"
    /\ IF ws_openlock
       THEN /\ ws_openlock' = FALSE
            /\ Goto(self, "con149")
            /\ UNCHANGED <<stack, ret>>
       ELSE /\ Raise(self, "RuntimeError")
            /\ UNCHANGED ws_openlock
    /\ UNCHANGED <<timing, auth, cap, status, subscriptions, ws, ws_thread, subscription_lock, ws_sendlock,
                   pingtimer, pingAge, sock,
                   op, args, cmd, todo, log>>

\* lines 149-150: already connected
Con149(self) ==
    /\ pc[self] = "con149"
    /\ IF status = "connected"
       THEN Return(self, "True")
       ELSE Goto(self, "con151") /\ UNCHANGED <<stack, ret>>
    /\ UNCHANGED <<shared, op, args, cmd, todo, log>>

\* line 151 without the wait: a handler that is disconnecting is treated as
\* any other status is
Con151_NoWait(self) ==
    /\ pc[self] = "con151"
    /\ Goto(self, "con155a")
    /\ UNCHANGED <<shared, stack, op, args, ret, cmd, todo, log>>

\* lines 151-154: while the handler is disconnecting, sleep and call connect
\* again; the caller returns what that call returns.  The log notes the
\* first wait of a call.
Con151(self) ==
    /\ pc[self] = "con151"
    /\ IF status = "disconnecting"
       THEN /\ Goto(self, "con146")
            /\ IF \E i \in 1..Len(log[self]) : log[self][i].e = "wait"
               THEN UNCHANGED log
               ELSE Note(self, Event("wait", ws))
       ELSE /\ Goto(self, "con155a")
            /\ UNCHANGED log
    /\ UNCHANGED <<shared, stack, op, args, ret, cmd, todo>>

\* line 155: two reads of self.status
Con155a(self) ==
    /\ pc[self] = "con155a"
    /\ Goto(self, IF status = "disconnected" THEN "con156" ELSE "con155b")
    /\ UNCHANGED <<shared, stack, op, args, ret, cmd, todo, log>>

Con155b(self) ==
    /\ pc[self] = "con155b"
    /\ Goto(self, IF status = "reconnecting" THEN "con156" ELSE "con170")
    /\ UNCHANGED <<shared, stack, op, args, ret, cmd, todo, log>>

\* lines 156-162: self.ws = websocket.WebSocketApp(...)
Con156(self) ==
    /\ pc[self] = "con156"
    /\ FreeTransports # {}
    /\ ws' = NewTransport
    /\ pc' = [pc EXCEPT ![self] = "con163", ![<<"w", NewTransport>>] = "new"]
    /\ wshdr' = [wshdr EXCEPT ![NewTransport] = headers]
    /\ Note(self, Event("create", NewTransport))
    /\ UNCHANGED <<timing, headers, lists, cap, status, subscriptions, ws_thread, ws_openlock, subscription_lock,
                   ws_sendlock, pingtimer, pingAge, sock,
                   stack, op, args, ret, cmd, todo>>

\* lines 163-164: self.ws_thread = Thread(target=self.ws.run_forever); the
\* thread is named by the transport it will run
Con163(self) ==
    /\ pc[self] = "con163"
    /\ ws_thread' = ws
    /\ Goto(self, "con166")
    /\ UNCHANGED <<timing, auth, cap, status, subscriptions, ws, ws_openlock, subscription_lock, ws_sendlock,
                   pingtimer, pingAge, sock,
                   stack, op, args, ret, cmd, todo, log>>

\* line 166
Con166(self) ==
    /\ pc[self] = "con166"
    /\ status' = "connecting"
    /\ Goto(self, "con167")
    /\ UNCHANGED <<timing, auth, cap, subscriptions, ws, ws_thread, ws_openlock, subscription_lock,
                   ws_sendlock, pingtimer, pingAge, sock,
                   stack, op, args, ret, cmd, todo, log>>

\* line 167: the lock of this attempt, released by on_open or on_error
Con167(self) ==
    /\ pc[self] = "con167"
    /\ ~ws_openlock
    /\ ws_openlock' = TRUE
    /\ Goto(self, "con168")
    /\ UNCHANGED <<timing, auth, cap, status, subscriptions, ws, ws_thread, subscription_lock, ws_sendlock,
                   pingtimer, pingAge, sock,
                   stack, op, args, ret, cmd, todo, log>>

\* line 168: self.ws_thread.start(); a thread can be started once only
Con168(self) ==
    /\ pc[self] = "con168"
    /\ IF ws_thread > 0 /\ pc[<<"w", ws_thread>>] = "new"
       THEN /\ pc' = [pc EXCEPT ![self] = "con170", ![<<"w", ws_thread>>] = "rf_connect"]
            /\ UNCHANGED <<stack, ret>>
       ELSE Raise(self, "RuntimeError")
    /\ UNCHANGED <<shared, op, args, cmd, todo, log>>

\* lines 170-171: wait for the attempt to resolve
Con170(self) ==
    /\ pc[self] = "con170"
    /\ ~ws_openlock
    /\ ws_openlock' = TRUE
    /\ Goto(self, "con171")
    /\ UNCHANGED <<timing, auth, cap, status, subscriptions, ws, ws_thread, subscription_lock, ws_sendlock,
                   pingtimer, pingAge, sock,
                   stack, op, args, ret, cmd, todo, log>>

Con171(self) ==
    /\ pc[self] = "con171"
    /\ IF ws_openlock
       THEN /\ ws_openlock' = FALSE
            /\ Goto(self, "con173")
            /\ UNCHANGED <<stack, ret>>
       ELSE /\ Raise(self, "RuntimeError")
            /\ UNCHANGED ws_openlock
    /\ UNCHANGED <<timing, auth, cap, status, subscriptions, ws, ws_thread, subscription_lock, ws_sendlock,
                   pingtimer, pingAge, sock,
                   op, args, cmd, todo, log>>

\* line 173, returning True whatever the status is
Con173_AlwaysTrue(self) ==
    /\ pc[self] = "con173"
    /\ Return(self, "True")
    /\ UNCHANGED <<shared, op, args, cmd, todo, log>>

\* line 173
Con173(self) ==
    /\ pc[self] = "con173"
    /\ Return(self, IF status = "connected" THEN "True" ELSE "False")
    /\ UNCHANGED <<shared, op, args, cmd, todo, log>>

\* ------------------------------------------------------------ unsubscribe
\* (mutant) the status is not looked at: the command is sent in any state
Uns125_NoCheck(self) ==
    /\ pc[self] = "uns125"
    /\ cmd' = [cmd EXCEPT ![self] =
                 Cmd("unsubscribe", args[self].stream, args[self].transform, 0)]
    /\ Call(self, "snd103", "uns133")
    /\ UNCHANGED <<shared, op, args, todo, ret, log>>

\* lines 125-131: not connected returns False, else the command is sent
Uns125(self) ==
    /\ pc[self] = "uns125"
    /\ IF status # "connected"
       THEN /\ Return(self, "False")
            /\ UNCHANGED cmd
       ELSE /\ cmd' = [cmd EXCEPT ![self] =
                         Cmd("unsubscribe", args[self].stream, args[self].transform, 0)]
            /\ Call(self, "snd103", "uns133")
            /\ UNCHANGED ret
    /\ UNCHANGED <<shared, op, args, todo, log>>

\* line 133: self.subscription_lock.acquire()
Uns133(self) ==
    /\ pc[self] = "uns133"
    /\ ~subscription_lock
    /\ subscription_lock' = TRUE
    /\ Goto(self, "uns134")
    /\ UNCHANGED <<timing, auth, cap, status, subscriptions, ws, ws_thread, ws_openlock, ws_sendlock,
                   pingtimer, pingAge, sock,
                   stack, op, args, ret, cmd, todo, log>>

\* (mutant) the last key goes and the connection stays
Uns134_KeepsConnection(self) ==
    /\ pc[self] = "uns134"
    /\ LET key == Key(args[self].stream, args[self].transform) IN
       IF key \notin DOMAIN subscriptions
       THEN /\ Raise(self, "KeyError")
            /\ UNCHANGED <<timing, auth, cap, subscriptions, subscription_lock, log>>
       ELSE /\ subscriptions' = Del(subscriptions, key)
            /\ subscription_lock' = FALSE
            /\ Note(self, [Event("remove", 0) EXCEPT !.arg = key])
            /\ Return(self, "None")
    /\ UNCHANGED <<timing, auth, cap, status, ws, ws_thread, ws_openlock, ws_sendlock,
                   pingtimer, pingAge, sock,
                   op, args, cmd, todo>>

\* lines 134-139: del raises KeyError for a missing key, with the lock still
\* held; else the key goes, the lock is released, and an empty mapping
\* disconnects
Uns134(self) ==
    /\ pc[self] = "uns134"
    /\ LET key == Key(args[self].stream, args[self].transform) IN
       IF key \notin DOMAIN subscriptions
       THEN /\ Raise(self, "KeyError")
            /\ UNCHANGED <<timing, auth, cap, subscriptions, subscription_lock, log>>
       ELSE /\ subscriptions' = Del(subscriptions, key)
            /\ subscription_lock' = FALSE
            /\ Note(self, [Event("remove", 0) EXCEPT !.arg = key])
            /\ IF DOMAIN subscriptions = {key}
               THEN Goto(self, "dis176") /\ UNCHANGED <<stack, ret>>
               ELSE Return(self, "None")
    /\ UNCHANGED <<timing, auth, cap, status, ws, ws_thread, ws_openlock, ws_sendlock,
                   pingtimer, pingAge, sock,
                   op, args, cmd, todo>>

\* ------------------------------------------------------------- disconnect
\* line 176 without its test of the status
Dis176_NoCheck(self) ==
    /\ pc[self] = "dis176"
    /\ Goto(self, "dis177")
    /\ UNCHANGED <<shared, stack, op, args, ret, cmd, todo, log>>

\* lines 178-179 leaving the mapping as it is
Dis178_KeepsMapping(self) ==
    /\ pc[self] = "dis178"
    /\ ~subscription_lock
    /\ Goto(self, "dis181")
    /\ UNCHANGED <<shared, stack, op, args, ret, cmd, todo, log>>

\* line 176
Dis176(self) ==
    /\ pc[self] = "dis176"
    /\ IF status = "connected"
       THEN Goto(self, "dis177") /\ UNCHANGED <<stack, ret>>
       ELSE Return(self, "None")
    /\ UNCHANGED <<shared, op, args, cmd, todo, log>>

\* line 177
Dis177(self) ==
    /\ pc[self] = "dis177"
    /\ status' = "disconnecting"
    /\ Goto(self, "dis178")
    /\ UNCHANGED <<timing, auth, cap, subscriptions, ws, ws_thread, ws_openlock, subscription_lock,
                   ws_sendlock, pingtimer, pingAge, sock,
                   stack, op, args, ret, cmd, todo, log>>

\* lines 178-179: under the subscription lock, self.subscriptions = {}
Dis178(self) ==
    /\ pc[self] = "dis178"
    /\ ~subscription_lock
    /\ subscriptions' = EmptyMap
    /\ Goto(self, "dis181")
    /\ UNCHANGED <<timing, auth, cap, status, ws, ws_thread, ws_openlock, subscription_lock, ws_sendlock,
                   pingtimer, pingAge, sock,
                   stack, op, args, ret, cmd, todo, log>>

\* line 181: self.ws.close() closes the socket of the transport self.ws names
Dis181(self) ==
    /\ pc[self] = "dis181"
    /\ sock' = [t \in Transports |-> IF t = ws THEN FALSE ELSE sock[t]]
    /\ Note(self, [Event("close", ws) EXCEPT
                      !.cmd = IF ws > 0 /\ sock[ws] THEN "open" ELSE "closed"])
    /\ Goto(self, "close251")
    /\ UNCHANGED <<timing, auth, cap, status, subscriptions, ws, ws_thread, ws_openlock, subscription_lock,
                   ws_sendlock, pingtimer, pingAge,
                   stack, op, args, ret, cmd, todo>>

\* --------------------------------------------------------------- on_close
\* lines 251-252
Close251(self) ==
    /\ pc[self] = "close251"
    /\ IF status = "disconnected"
       THEN Return(self, "None")
       ELSE Goto(self, "close256") /\ UNCHANGED <<stack, ret>>
    /\ UNCHANGED <<shared, op, args, cmd, todo, log>>

\* lines 256-259: cancel the ping timer; a cancelled timer never fires
Close256(self) ==
    /\ pc[self] = "close256"
    /\ IF pingtimer > 0
       THEN /\ pingtimer' = -1
            /\ pc' = [pc EXCEPT ![self] = "close260", ![<<"t", pingtimer>>] = "free"]
       ELSE /\ Goto(self, "close260")
            /\ UNCHANGED pingtimer
    /\ disconnected_time' = now
    /\ UNCHANGED <<reconnect_time, connected_time, now, pingDue, auth, cap, status, subscriptions, ws, ws_thread, ws_openlock, subscription_lock,
                   ws_sendlock, pingAge, sock, stack, op, args, ret, cmd, todo, log>>

\* line 260
Close260(self) ==
    /\ pc[self] = "close260"
    /\ Goto(self, IF status = "disconnecting" THEN "close261" ELSE "close262")
    /\ UNCHANGED <<shared, stack, op, args, ret, cmd, todo, log>>

\* line 261
Close261(self) ==
    /\ pc[self] = "close261"
    /\ status' = "disconnected"
    /\ Return(self, "None")
    /\ UNCHANGED <<timing, auth, cap, subscriptions, ws, ws_thread, ws_openlock, subscription_lock,
                   ws_sendlock, pingtimer, pingAge, sock, op, args, cmd, todo, log>>

\* lines 262-263
Close262(self) ==
    /\ pc[self] = "close262"
    /\ IF status = "connected"
       THEN Goto(self, "rec186") /\ UNCHANGED <<stack, ret>>
       ELSE Return(self, "None")
    /\ UNCHANGED <<shared, op, args, cmd, todo, log>>

\* line 186, forgetting the subscriptions as well
Rec186_ClearsMapping(self) ==
    /\ pc[self] = "rec186"
    /\ status' = "reconnecting"
    /\ subscriptions' = EmptyMap
    /\ Goto(self, "rec207")
    /\ UNCHANGED <<timing, auth, cap, ws, ws_thread, ws_openlock, subscription_lock,
                   ws_sendlock, pingtimer, pingAge, sock,
                   stack, op, args, ret, cmd, todo, log>>

\* ------------------------------------------------------------ __reconnect
\* lines 186-202: the status, and the delay of the timer line 207 starts;
\* the delay is followed only in the specifications about it
Rec186(self) ==
    /\ pc[self] = "rec186"
    /\ status' = "reconnecting"
    /\ IF cap.timed
       THEN \E j \in Jitter :
               reconnect_time' =
                   NextDelay(reconnect_time, disconnected_time - connected_time, j)
       ELSE UNCHANGED reconnect_time
    /\ Goto(self, "rec207")
    /\ UNCHANGED <<connected_time, disconnected_time, now, pingDue, auth, cap, subscriptions, ws, ws_thread, ws_openlock, subscription_lock,
                   ws_sendlock, pingtimer, pingAge, sock,
                   stack, op, args, ret, cmd, todo, log>>

\* lines 207-210: a one-shot timer that will call __reconnect_fnc
\* (self.reconnector is written here and read nowhere).  A timer thread
\* that ends with this call hands its place in the pool to the new timer.
Rec207(self) ==
    /\ pc[self] = "rec207"
    /\ IF self \in TimerThreads /\ stack[self] = <<>>
       THEN /\ Goto(self, "pending_reconnect")
            /\ op' = [op EXCEPT ![self] = "none"]
            /\ log' = [log EXCEPT ![self] = <<>>]
            /\ ret' = [ret EXCEPT ![self] = "none"]
            /\ UNCHANGED stack
       ELSE /\ FreeTimers # {}
            /\ pc' = [pc EXCEPT ![self] = After(self),
                                ![<<"t", NewTimer>>] = "pending_reconnect"]
            /\ stack' = [stack EXCEPT ![self] = Rest(self)]
            /\ ret' = IF Used(self) THEN [ret EXCEPT ![self] = "None"] ELSE ret
            /\ Note(self, Event("timer", NewTimer))
            /\ UNCHANGED op
    /\ UNCHANGED <<shared, args, cmd, todo>>

\* -------------------------------------------------------- __reconnect_fnc
\* the reconnect timer fires: line 214, self.connect()
TimerReconnect(self) ==
    /\ pc[self] = "pending_reconnect"
    /\ op' = [op EXCEPT ![self] = "reconnect_fnc"]
    /\ pc' = [pc EXCEPT ![self] = "con146"]
    /\ stack' = [stack EXCEPT ![self] = <<"rfn215">>]
    /\ UNCHANGED <<shared, args, ret, cmd, todo, log>>

\* lines 214-217: resubscribe after a connect that succeeded, else back off
Rfn215(self) ==
    /\ pc[self] = "rfn215"
    /\ Goto(self, IF ret[self] = "True" THEN "rsb222" ELSE "rec186")
    /\ UNCHANGED <<shared, stack, op, args, ret, cmd, todo, log>>

\* ----------------------------------------------------------- __resubscribe
\* line 222: with self.subscription_lock
Rsb222(self) ==
    /\ pc[self] = "rsb222"
    /\ ~subscription_lock
    /\ subscription_lock' = TRUE
    /\ todo' = [todo EXCEPT ![self] = DOMAIN subscriptions]
    /\ Goto(self, "rsb223")
    /\ UNCHANGED <<timing, auth, cap, status, subscriptions, ws, ws_thread, ws_openlock, ws_sendlock,
                   pingtimer, pingAge, sock, stack, op, args, ret, cmd, log>>

\* lines 223-230: for each key, send subscribe with the two halves of
\* sub.split(":", 1); the lock is released after the last one
Rsb223(self) ==
    /\ pc[self] = "rsb223"
    /\ IF todo[self] = {}
       THEN /\ subscription_lock' = FALSE
            /\ Return(self, "None")
            /\ UNCHANGED <<cmd, todo>>
       ELSE /\ \E sub \in todo[self] :
                 /\ cmd' = [cmd EXCEPT ![self] =
                              Cmd("subscribe", Split(sub)[1], Split(sub)[2], 0)]
                 /\ todo' = [todo EXCEPT ![self] = @ \ {sub}]
            /\ Call(self, "snd103", "rsb223")
            /\ UNCHANGED <<timing, auth, cap, subscription_lock, ret>>
    /\ UNCHANGED <<timing, auth, cap, status, subscriptions, ws, ws_thread, ws_openlock, ws_sendlock,
                   pingtimer, pingAge, sock, op, args, log>>

\* ---------------------------------------------------------------- on_open
\* lines 237-239
Open239(self) ==
    /\ pc[self] = "open239"
    /\ reconnect_time' = IF cap.timed
                         THEN Over(reconnect_time, reconnect_time_backoff_multiplier)
                         ELSE reconnect_time
    /\ status' = "connected"
    /\ Goto(self, "open241")
    /\ UNCHANGED <<connected_time, disconnected_time, now, pingDue, auth, cap, subscriptions, ws, ws_thread, ws_openlock, subscription_lock,
                   ws_sendlock, pingtimer, pingAge, sock,
                   stack, op, args, ret, cmd, todo, log>>

\* lines 241-242: self.lastpingtime = time.time(); self.__ensure_ping()
Open241(self) ==
    /\ pc[self] = "open241"
    /\ pingAge' = 0
    /\ Call(self, "ping319", "open247")
    /\ UNCHANGED <<timing, auth, cap, status, subscriptions, ws, ws_thread, ws_openlock, subscription_lock,
                   ws_sendlock, pingtimer, sock, op, args, ret, cmd, todo, log>>

\* lines 244-247: release the lock connect() took at line 167
Open247(self) ==
    /\ pc[self] = "open247"
    /\ connected_time' = now
    /\ IF ws_openlock
       THEN /\ ws_openlock' = FALSE
            /\ Return(self, "None")
       ELSE /\ Raise(self, "RuntimeError")
            /\ UNCHANGED ws_openlock
    /\ UNCHANGED <<reconnect_time, disconnected_time, now, pingDue, auth, cap, status, subscriptions, ws, ws_thread, subscription_lock, ws_sendlock,
                   pingtimer, pingAge, sock, op, args, cmd, todo, log>>

\* --------------------------------------------------------------- on_error
\* line 269
Err269(self) ==
    /\ pc[self] = "err269"
    /\ IF status = "connecting"
       THEN Goto(self, "err270") /\ UNCHANGED <<stack, ret>>
       ELSE Return(self, "None")
    /\ UNCHANGED <<shared, op, args, cmd, todo, log>>

\* line 270
Err270(self) ==
    /\ pc[self] = "err270"
    /\ status' = "errored"
    /\ Goto(self, "err271")
    /\ UNCHANGED <<timing, auth, cap, subscriptions, ws, ws_thread, ws_openlock, subscription_lock,
                   ws_sendlock, pingtimer, pingAge, sock,
                   stack, op, args, ret, cmd, todo, log>>

\* line 271
Err271(self) ==
    /\ pc[self] = "err271"
    /\ IF ws_openlock
       THEN /\ ws_openlock' = FALSE
            /\ Return(self, "None")
       ELSE /\ Raise(self, "RuntimeError")
            /\ UNCHANGED ws_openlock
    /\ UNCHANGED <<timing, auth, cap, status, subscriptions, ws, ws_thread, subscription_lock, ws_sendlock,
                   pingtimer, pingAge, sock, op, args, cmd, todo, log>>

\* line 319 with >= in the place of >
Ping319_ClosesAtTimeout(self) ==
    /\ pc[self] = "ping319"
    /\ IF pingAge >= connection_ping_timeout
       THEN /\ IF ws # 0
               THEN Goto(self, "ping322") /\ UNCHANGED <<stack, ret>>
               ELSE Return(self, "None")
            /\ UNCHANGED <<pingtimer, op>>
       ELSE IF self \in TimerThreads /\ stack[self] = <<>>
       THEN /\ pingtimer' = self[2]
            /\ Goto(self, "pending_ping")
            /\ op' = [op EXCEPT ![self] = "none"]
            /\ UNCHANGED <<stack, ret>>
       ELSE /\ FreeTimers # {}
            /\ pingtimer' = NewTimer
            /\ pc' = [pc EXCEPT ![self] = After(self),
                                ![<<"t", NewTimer>>] = "pending_ping"]
            /\ stack' = [stack EXCEPT ![self] = Rest(self)]
            /\ ret' = IF Used(self) THEN [ret EXCEPT ![self] = "None"] ELSE ret
            /\ UNCHANGED op
    /\ log' = IF cap.timed /\ self \in TimerThreads /\ stack[self] = <<>>
              THEN [log EXCEPT ![self] = <<Event("check", pingAge)>>]
              ELSE log
    /\ pingDue' = IF cap.clock /\ pingAge < connection_ping_timeout
                  THEN connection_ping_timeout ELSE pingDue
    /\ UNCHANGED <<reconnect_time, connected_time, disconnected_time, now, auth, cap, status, subscriptions, ws, ws_thread, ws_openlock, subscription_lock,
                   ws_sendlock, pingAge, sock, args, cmd, todo>>

\* ---------------------------------------------------------- __ensure_ping
\* lines 319-329: too long without a ping goes on to close the transport,
\* else a new timer is set for the next check.  A timer thread that ends
\* with this call hands its place in the pool to the new timer.
\* line 327 with a timer of twice the timeout
Ping319_TwicePeriod(self) ==
    /\ pc[self] = "ping319"
    /\ IF pingAge > connection_ping_timeout
       THEN /\ IF ws # 0
               THEN Goto(self, "ping322") /\ UNCHANGED <<stack, ret>>
               ELSE Return(self, "None")
            /\ UNCHANGED <<pingtimer, op>>
       ELSE IF self \in TimerThreads /\ stack[self] = <<>>
       THEN /\ pingtimer' = self[2]
            /\ Goto(self, "pending_ping")
            /\ op' = [op EXCEPT ![self] = "none"]
            /\ UNCHANGED <<stack, ret>>
       ELSE /\ FreeTimers # {}
            /\ pingtimer' = NewTimer
            /\ pc' = [pc EXCEPT ![self] = After(self),
                                ![<<"t", NewTimer>>] = "pending_ping"]
            /\ stack' = [stack EXCEPT ![self] = Rest(self)]
            /\ ret' = IF Used(self) THEN [ret EXCEPT ![self] = "None"] ELSE ret
            /\ UNCHANGED op
    /\ log' = IF cap.timed /\ self \in TimerThreads /\ stack[self] = <<>>
              THEN [log EXCEPT ![self] = <<Event("check", pingAge)>>]
              ELSE log
    /\ pingDue' = IF cap.clock /\ pingAge <= connection_ping_timeout
                  THEN 2 * connection_ping_timeout ELSE pingDue
    /\ UNCHANGED <<reconnect_time, connected_time, disconnected_time, now, auth, cap, status, subscriptions, ws, ws_thread, ws_openlock, subscription_lock,
                   ws_sendlock, pingAge, sock, args, cmd, todo>>

Ping319(self) ==
    /\ pc[self] = "ping319"
    /\ IF pingAge > connection_ping_timeout
       THEN /\ IF ws # 0
               THEN Goto(self, "ping322") /\ UNCHANGED <<stack, ret>>
               ELSE Return(self, "None")
            /\ UNCHANGED <<pingtimer, op>>
       ELSE IF self \in TimerThreads /\ stack[self] = <<>>
       THEN /\ pingtimer' = self[2]
            /\ Goto(self, "pending_ping")
            /\ op' = [op EXCEPT ![self] = "none"]
            /\ UNCHANGED <<stack, ret>>
       ELSE /\ FreeTimers # {}
            /\ pingtimer' = NewTimer
            /\ pc' = [pc EXCEPT ![self] = After(self),
                                ![<<"t", NewTimer>>] = "pending_ping"]
            /\ stack' = [stack EXCEPT ![self] = Rest(self)]
            /\ ret' = IF Used(self) THEN [ret EXCEPT ![self] = "None"] ELSE ret
            /\ UNCHANGED op
    /\ log' = IF cap.timed /\ self \in TimerThreads /\ stack[self] = <<>>
              THEN [log EXCEPT ![self] = <<Event("check", pingAge)>>]
              ELSE log
    /\ pingDue' = IF cap.clock /\ pingAge <= connection_ping_timeout
                  THEN connection_ping_timeout ELSE pingDue
    /\ UNCHANGED <<reconnect_time, connected_time, disconnected_time, now, auth, cap, status, subscriptions, ws, ws_thread, ws_openlock, subscription_lock,
                   ws_sendlock, pingAge, sock, args, cmd, todo>>

\* lines 322-323 without the close()
Ping322_KeepsTransport(self) ==
    /\ pc[self] = "ping322"
    /\ sock' = sock
    /\ Note(self, [Event("close", ws) EXCEPT
                      !.cmd = IF ws > 0 /\ sock[ws] THEN "open" ELSE "closed"])
    /\ Goto(self, "close251")
    /\ UNCHANGED <<timing, auth, cap, status, subscriptions, ws, ws_thread, ws_openlock, subscription_lock,
                   ws_sendlock, pingtimer, pingAge, stack, op, args, ret, cmd, todo>>

\* lines 322-323: self.ws.close(); self.__on_close(self.ws)
Ping322(self) ==
    /\ pc[self] = "ping322"
    /\ sock' = [t \in Transports |-> IF t = ws THEN FALSE ELSE sock[t]]
    /\ Note(self, [Event("close", ws) EXCEPT
                      !.cmd = IF ws > 0 /\ sock[ws] THEN "open" ELSE "closed"])
    /\ Goto(self, "close251")
    /\ UNCHANGED <<timing, auth, cap, status, subscriptions, ws, ws_thread, ws_openlock, subscription_lock,
                   ws_sendlock, pingtimer, pingAge, stack, op, args, ret, cmd, todo>>

\* the ping timer fires and calls __ensure_ping; from now on cancel() is
\* without effect on it
TimerPing(self) ==
    /\ pc[self] = "pending_ping"
    /\ cap.clock /\ pingtimer = self[2] => pingDue = 0
    /\ pingtimer' = IF pingtimer = self[2] THEN -1 ELSE pingtimer
    /\ op' = [op EXCEPT ![self] = "ensure_ping"]
    /\ Goto(self, "ping319")
    /\ UNCHANGED <<timing, auth, cap, status, subscriptions, ws, ws_thread, ws_openlock, subscription_lock,
                   ws_sendlock, pingAge, sock, stack, args, ret, cmd, todo, log>>

\* ---------------------------------------------------------------- on_ping
\* line 311 followed by a new start of the ping timer
OnPing_Reschedules(self) ==
    /\ pc[self] = "rf_loop"
    /\ sock[self[2]]
    /\ pingAge # 0
    /\ pingAge' = 0
    /\ pingDue' = IF cap.clock /\ pingtimer > 0 THEN connection_ping_timeout ELSE pingDue
    /\ UNCHANGED <<reconnect_time, connected_time, disconnected_time, now, auth, cap, status,
                   subscriptions, ws, ws_thread, ws_openlock, subscription_lock,
                   ws_sendlock, pingtimer, sock, locals>>

\* line 311: a ping frame arrives on an open transport
OnPing(self) ==
    /\ pc[self] = "rf_loop"
    /\ sock[self[2]]
    /\ pingAge # 0
    /\ pingAge' = 0
    /\ UNCHANGED <<timing, auth, cap, status, subscriptions, ws, ws_thread, ws_openlock, subscription_lock,
                   ws_sendlock, pingtimer, sock, locals>>

\* time passes until the last ping is older than the timeout;
\* self.lastpingtime is read by __ensure_ping only, so the clock is followed
\* while a ping check is due.  The specifications about time stop at the
\* age that equals the timeout as well.
Tick ==
    /\ pingAge <= connection_ping_timeout
    /\ \E th \in Threads : pc[th] \in {"pending_ping", "ping319"}
    /\ pingAge' \in { a \in {connection_ping_timeout, connection_ping_timeout + 1} :
                         a > pingAge /\ (cap.timed \/ a > connection_ping_timeout) }
    /\ UNCHANGED <<timing, auth, cap, status, subscriptions, ws, ws_thread, ws_openlock, subscription_lock,
                   ws_sendlock, pingtimer, sock, locals>>

\* ------------------------------------------------------------- on_message
\* the frames the server sends: a datapoint message for one of the pairs,
\* with the "transform" field left out when the transform is empty
Messages ==
    { [stream |-> p[1], transform |-> p[2], has |-> TRUE] : p \in Pairs }
    \cup { [stream |-> p[1], transform |-> <<>>, has |-> FALSE] : p \in Pairs }

\* lines 275-281: the read loop hands a frame to __on_message, which
\* builds the key stream + ":" + (the transform, when the frame has one)
OnMessage(self) ==
    /\ pc[self] = "rf_loop"
    /\ sock[self[2]]
    /\ \E m \in Messages :
         args' = [args EXCEPT ![self] =
                    [stream |-> m.stream,
                     transform |-> IF m.has THEN m.transform ELSE <<>>,
                     cb |-> "none", basic_auth |-> "none"]]
    /\ log' = [log EXCEPT ![self] = <<>>]
    /\ pc' = [pc EXCEPT ![self] = "msg283"]
    /\ stack' = [stack EXCEPT ![self] = <<"rf_loop">>]
    /\ UNCHANGED <<shared, op, ret, cmd, todo>>

\* lines 275-276: a frame that is no JSON makes json.loads raise ValueError,
\* one without "stream" makes msg["stream"] raise KeyError; the handler has
\* done nothing yet
Msg275(self) ==
    /\ pc[self] = "rf_loop"
    /\ sock[self[2]]
    /\ \E exc \in {"ValueError", "KeyError"} :
         log' = [log EXCEPT ![self] = <<[Event("raise", 0) EXCEPT !.d = exc]>>]
    /\ args' = [args EXCEPT ![self] = NoArgs]
    /\ UNCHANGED <<shared, pc, stack, op, ret, cmd, todo>>

\* line 283: self.subscription_lock.acquire()
Msg283(self) ==
    /\ pc[self] = "msg283"
    /\ ~subscription_lock
    /\ subscription_lock' = TRUE
    /\ Goto(self, "msg284")
    /\ UNCHANGED <<timing, auth, cap, status, subscriptions, ws, ws_thread, ws_openlock, ws_sendlock,
                   pingtimer, pingAge, sock, stack, op, args, ret, cmd, todo, log>>

\* lines 284-286 with the key of line 279 only, without the transform
Msg284_IgnoresTransform(self) ==
    /\ pc[self] = "msg284"
    /\ subscription_lock' = FALSE
    /\ LET key == Key(args[self].stream, <<>>) IN
       IF key \in DOMAIN subscriptions
       THEN /\ args' = [args EXCEPT ![self].cb = subscriptions[key]]
            /\ Goto(self, "msg288")
            /\ UNCHANGED <<stack, ret>>
       ELSE /\ Return(self, "None")
            /\ UNCHANGED args
    /\ UNCHANGED <<timing, auth, cap, status, subscriptions, ws, ws_thread, ws_openlock, ws_sendlock,
                   pingtimer, pingAge, sock, op, cmd, todo, log>>

\* lines 284-286 without the release of line 286
Msg284_KeepsLock(self) ==
    /\ pc[self] = "msg284"
    /\ LET key == Key(args[self].stream, args[self].transform) IN
       subscription_lock' = (key \in DOMAIN subscriptions)
    /\ LET key == Key(args[self].stream, args[self].transform) IN
       IF key \in DOMAIN subscriptions
       THEN /\ args' = [args EXCEPT ![self].cb = subscriptions[key]]
            /\ Goto(self, "msg288")
            /\ UNCHANGED <<stack, ret>>
       ELSE /\ Return(self, "None")
            /\ UNCHANGED args
    /\ UNCHANGED <<timing, auth, cap, status, subscriptions, ws, ws_thread, ws_openlock, ws_sendlock,
                   pingtimer, pingAge, sock, op, cmd, todo, log>>

\* lines 284-286 and 300-304: look the callback up and release the lock;
\* without a callback the message is dropped
Msg284(self) ==
    /\ pc[self] = "msg284"
    /\ subscription_lock' = FALSE
    /\ LET key == Key(args[self].stream, args[self].transform) IN
       IF key \in DOMAIN subscriptions
       THEN /\ args' = [args EXCEPT ![self].cb = subscriptions[key]]
            /\ Goto(self, "msg288")
            /\ UNCHANGED <<stack, ret>>
       ELSE /\ Return(self, "None")
            /\ UNCHANGED args
    /\ UNCHANGED <<timing, auth, cap, status, subscriptions, ws, ws_thread, ws_openlock, ws_sendlock,
                   pingtimer, pingAge, sock, op, cmd, todo, log>>

\* lines 288-299, inserting into the stream the message came from
Msg288_KeepsDownlink(self) ==
    /\ pc[self] = "msg288"
    /\ \/ \E fresult \in Results :
            LET d == IF fresult = "True" THEN "d0" ELSE fresult
                stream == args[self].stream
            IN  /\ log' = [log EXCEPT ![self] =
                             Append(@, [Event("callback", 0) EXCEPT
                                          !.cmd = args[self].cb, !.arg = stream,
                                          !.d = fresult])]
                /\ IF /\ fresult \notin {"False", "None"}
                      /\ EndsWith(stream, Downlink)
                      /\ Count(stream, "/") = 3
                   THEN /\ cmd' = [cmd EXCEPT ![self] =
                                     [Cmd("insert",
                                          stream,
                                          <<>>, 0) EXCEPT !.d = d]]
                        /\ Goto(self, "snd103")
                        /\ UNCHANGED <<stack, ret>>
                   ELSE /\ Return(self, "None")
                        /\ UNCHANGED cmd
       \/ /\ cap.anyframe
          /\ log' = [log EXCEPT ![self] =
                       Append(@, [Event("raise", 0) EXCEPT !.d = "KeyError"])]
          /\ Raise(self, "KeyError")
          /\ UNCHANGED cmd
    /\ UNCHANGED <<shared, op, args, todo>>

\* lines 288-299: the callback is called with (stream, data), and a frame
\* without "data", whose field is first read here, raises KeyError before
\* the call; True stands
\* for the data of the message; a result other than False and None for a
\* stream that ends in "/downlink" and has three "/" is inserted into the
\* stream without that ending
\* line 297 without the count of "/"
Msg288_AnyDepth(self) ==
    /\ pc[self] = "msg288"
    /\ \/ \E fresult \in Results :
            LET d == IF fresult = "True" THEN "d0" ELSE fresult
                stream == args[self].stream
            IN  /\ log' = [log EXCEPT ![self] =
                             Append(@, [Event("callback", 0) EXCEPT
                                          !.cmd = args[self].cb, !.arg = stream,
                                          !.d = fresult])]
                /\ IF /\ fresult \notin {"False", "None"}
                      /\ EndsWith(stream, Downlink)
                   THEN /\ cmd' = [cmd EXCEPT ![self] =
                                     [Cmd("insert",
                                          SubSeq(stream, 1, Len(stream) - Len(Downlink)),
                                          <<>>, 0) EXCEPT !.d = d]]
                        /\ Goto(self, "snd103")
                        /\ UNCHANGED <<stack, ret>>
                   ELSE /\ Return(self, "None")
                        /\ UNCHANGED cmd
       \/ /\ cap.anyframe
          /\ log' = [log EXCEPT ![self] =
                       Append(@, [Event("raise", 0) EXCEPT !.d = "KeyError"])]
          /\ Raise(self, "KeyError")
          /\ UNCHANGED cmd
    /\ UNCHANGED <<shared, op, args, todo>>

Msg288(self) ==
    /\ pc[self] = "msg288"
    /\ \/ \E fresult \in Results :
            LET d == IF fresult = "True" THEN "d0" ELSE fresult
                stream == args[self].stream
            IN  /\ log' = [log EXCEPT ![self] =
                             Append(@, [Event("callback", 0) EXCEPT
                                          !.cmd = args[self].cb, !.arg = stream,
                                          !.d = fresult])]
                /\ IF /\ fresult \notin {"False", "None"}
                      /\ EndsWith(stream, Downlink)
                      /\ Count(stream, "/") = 3
                   THEN /\ cmd' = [cmd EXCEPT ![self] =
                                     [Cmd("insert",
                                          SubSeq(stream, 1, Len(stream) - Len(Downlink)),
                                          <<>>, 0) EXCEPT !.d = d]]
                        /\ Goto(self, "snd103")
                        /\ UNCHANGED <<stack, ret>>
                   ELSE /\ Return(self, "None")
                        /\ UNCHANGED cmd
       \/ /\ cap.anyframe
          /\ log' = [log EXCEPT ![self] =
                       Append(@, [Event("raise", 0) EXCEPT !.d = "KeyError"])]
          /\ Raise(self, "KeyError")
          /\ UNCHANGED cmd
    /\ UNCHANGED <<shared, op, args, todo>>

\* ------------------------------------------- the transport (run_forever)
\* the thread started at line 168 opens the socket: on_open when it
\* connects, on_error and then on_close when it does not
RfOpens(self) ==
    /\ pc[self] = "rf_connect"
    /\ sock' = [sock EXCEPT ![self[2]] = TRUE]
    /\ pc' = [pc EXCEPT ![self] = "open239"]
    /\ stack' = [stack EXCEPT ![self] = <<"rf_loop">>]
    /\ UNCHANGED <<timing, auth, cap, status, subscriptions, ws, ws_thread, ws_openlock, subscription_lock,
                   ws_sendlock, pingtimer, pingAge, op, args, ret, cmd, todo, log>>

RfFails(self) ==
    /\ pc[self] = "rf_connect"
    /\ pc' = [pc EXCEPT ![self] = "err269"]
    /\ stack' = [stack EXCEPT ![self] = <<"rf_teardown">>]
    /\ UNCHANGED <<shared, op, args, ret, cmd, todo, log>>

RfConnect(self) == RfOpens(self) \/ RfFails(self)

\* the server, or the network, closes an open socket
ServerClose(self) ==
    /\ sock[self[2]]
    /\ sock' = [sock EXCEPT ![self[2]] = FALSE]
    /\ UNCHANGED <<timing, auth, cap, status, subscriptions, ws, ws_thread, ws_openlock, subscription_lock,
                   ws_sendlock, pingtimer, pingAge, locals>>

\* the read loop finds its socket closed: on_close, after on_error when
\* the read failed
RfClosed(self) ==
    /\ pc[self] = "rf_loop"
    /\ ~sock[self[2]]
    /\ \/ /\ pc' = [pc EXCEPT ![self] = "err269"]
          /\ stack' = [stack EXCEPT ![self] = <<"rf_teardown">>]
       \/ /\ pc' = [pc EXCEPT ![self] = "close251"]
          /\ stack' = [stack EXCEPT ![self] = <<"rf_exit">>]
    /\ UNCHANGED <<shared, op, args, ret, cmd, todo, log>>

RfTeardown(self) ==
    /\ pc[self] = "rf_teardown"
    /\ pc' = [pc EXCEPT ![self] = "close251"]
    /\ stack' = [stack EXCEPT ![self] = <<"rf_exit">>]
    /\ UNCHANGED <<shared, op, args, ret, cmd, todo, log>>

\* run_forever returns and the thread ends
RfExit(self) ==
    /\ pc[self] = "rf_exit"
    /\ Goto(self, "free")
    /\ sock' = [sock EXCEPT ![self[2]] = FALSE]
    /\ ws' = IF ws = self[2] THEN -1 ELSE ws
    /\ ws_thread' = IF ws_thread = self[2] THEN -1 ELSE ws_thread
    /\ args' = [args EXCEPT ![self] = NoArgs]
    /\ log' = [log EXCEPT ![self] = <<>>]
    /\ UNCHANGED <<timing, auth, cap, status, subscriptions, ws_openlock, subscription_lock, ws_sendlock,
                   pingtimer, pingAge, stack, op, ret, cmd, todo>>

\* the caller goes on after its call; a timer thread ends
Forget(self) ==
    /\ pc[self] = Bottom(self)
    /\ Goto(self, IF self \in Callers THEN "idle" ELSE "free")
    /\ op' = [op EXCEPT ![self] = "none"]
    /\ args' = [args EXCEPT ![self] = NoArgs]
    /\ ret' = [ret EXCEPT ![self] = "none"]
    /\ cmd' = [cmd EXCEPT ![self] = NoCmd]
    /\ todo' = [todo EXCEPT ![self] = {}]
    /\ log' = [log EXCEPT ![self] = <<>>]
    /\ UNCHANGED <<shared, stack>>

\* ------------------------------------------------------------------- next
SubscribeStep(self) ==
    \/ Sub112a(self) \/ Sub112b(self) \/ Sub112c(self) \/ Sub113(self)
    \/ Sub114(self) \/ Sub119(self)

SendStep(self) == Snd103(self) \/ Snd104(self)

SetauthStep(self) == Auth72(self) \/ Auth85(self)

ConnectStep(self) ==
    \/ Con146(self) \/ Con147(self) \/ Con149(self) \/ Con151(self)
    \/ Con155a(self) \/ Con155b(self) \/ Con156(self) \/ Con163(self)
    \/ Con166(self) \/ Con167(self) \/ Con168(self) \/ Con170(self)
    \/ Con171(self) \/ Con173(self)

UnsubscribeStep(self) == Uns125(self) \/ Uns133(self) \/ Uns134(self)

DisconnectStep(self) == Dis176(self) \/ Dis177(self) \/ Dis178(self) \/ Dis181(self)

CloseStep(self) ==
    \/ Close251(self) \/ Close256(self) \/ Close260(self) \/ Close261(self)
    \/ Close262(self)

ReconnectStep(self) ==
    \/ Rec186(self) \/ Rec207(self) \/ Rfn215(self) \/ Rsb222(self) \/ Rsb223(self)

OpenStep(self) == Open239(self) \/ Open241(self) \/ Open247(self)

ErrorStep(self) == Err269(self) \/ Err270(self) \/ Err271(self)

PingStep(self) == Ping319(self) \/ Ping322(self)

TransportStep(self) ==
    \/ RfConnect(self) \/ ServerClose(self) \/ RfClosed(self)
    \/ RfTeardown(self) \/ RfExit(self) \/ OnPing(self)

TimerStep(self) == TimerReconnect(self) \/ TimerPing(self)

MessageStep(self) == OnMessage(self) \/ Msg283(self) \/ Msg284(self) \/ Msg288(self)

\* every thread, every method
Next ==
    \/ \E self \in Callers :
         \/ CallSubscribe(self) \/ CallUnsubscribe(self)
         \/ CallConnect(self) \/ CallDisconnect(self)
    \/ \E self \in Threads :
         \/ SubscribeStep(self) \/ SendStep(self) \/ ConnectStep(self)
         \/ UnsubscribeStep(self) \/ DisconnectStep(self) \/ CloseStep(self)
         \/ ReconnectStep(self) \/ OpenStep(self) \/ ErrorStep(self)
         \/ PingStep(self) \/ Forget(self)
    \/ \E self \in WsThreads : TransportStep(self)
    \/ \E self \in TimerThreads : TimerStep(self)
    \/ Tick

\* one caller at a time uses the handler, beside the transport's thread and
\* the timers
Spec == Init /\ [][Next]_vars

\* callers that connect at the same time, to a server that accepts or
\* refuses each transport and then keeps it open
NextRace ==
    \/ \E self \in Callers : CallConnect(self)
    \/ \E self \in Threads :
         \/ ConnectStep(self) \/ OpenStep(self) \/ ErrorStep(self)
         \/ Ping319(self) \/ Forget(self)
         \/ Close251(self) \/ Close256(self) \/ Close260(self) \/ Close262(self)
    \/ \E self \in WsThreads : RfConnect(self) \/ RfTeardown(self) \/ RfExit(self)
    \/ \E self \in TimerThreads : TimerPing(self)

SpecRace == InitRace /\ [][NextRace]_vars

\* one caller that makes a sequence of subscribe and unsubscribe calls, to
\* a server that accepts every connection and keeps it open
InitSeq ==
    /\ cap = [callers |-> SeqCallers, transports |-> SeqTransports, timers |-> SeqTimers,
              callbacks |-> ApiCallbacks, timed |-> FALSE,
              anyframe |-> FALSE, clock |-> FALSE, acks |-> FALSE]
    /\ Fresh

NextSeq ==
    \/ \E self \in Callers : CallSubscribe(self) \/ CallUnsubscribe(self)
    \/ \E self \in Threads :
         \/ SubscribeStep(self) \/ SendStep(self)
         \/ Con146(self) \/ Con147(self) \/ Con149(self) \/ Con151(self)
         \/ Con155a(self) \/ Con156(self) \/ Con163(self) \/ Con166(self)
         \/ Con167(self) \/ Con168(self) \/ Con170(self) \/ Con171(self)
         \/ Con173(self)
         \/ UnsubscribeStep(self) \/ DisconnectStep(self) \/ CloseStep(self)
         \/ OpenStep(self) \/ Err269(self) \/ Ping319(self) \/ Forget(self)
    \/ \E self \in WsThreads :
         \/ RfOpens(self) \/ RfClosed(self) \/ RfTeardown(self) \/ RfExit(self)
    \/ \E self \in TimerThreads : TimerPing(self)

SpecSeq == InitSeq /\ [][NextSeq]_vars

\* the handler after a connect that succeeded: the transport's thread is in
\* run_forever with its socket open, and the ping timer that on_open
\* started is pending
Up(subs) ==
    /\ Stored
    /\ status = "connected"
    /\ subscriptions = subs
    /\ ws = 1
    /\ ws_thread = 1
    /\ ws_openlock = FALSE
    /\ subscription_lock = FALSE
    /\ ws_sendlock = FALSE
    /\ pingtimer = 1
    /\ pingAge = 0
    /\ sock = [t \in Transports |-> t = 1]
    /\ pc = [th \in Threads |-> IF th \in Callers THEN "idle"
                                ELSE IF th = <<"w", 1>> THEN "rf_loop"
                                ELSE IF th = <<"t", 1>> THEN "pending_ping"
                                ELSE "free"]
    /\ stack = [th \in Threads |-> <<>>]
    /\ op = [th \in Threads |-> "none"]
    /\ args = [th \in Threads |-> NoArgs]
    /\ ret = [th \in Threads |-> "none"]
    /\ cmd = [th \in Threads |-> NoCmd]
    /\ todo = [th \in Threads |-> {}]
    /\ log = [th \in Threads |-> <<>>]

Established == Up(EmptyMap) /\ Untimed

\* on a connection that is up, one caller calls connect and another calls
\* disconnect, beside the transport's thread and the timers; the server
\* accepts every connection and sends its pings in time; every thread that
\* can take a step takes one in the end, as the threads of the interpreter
\* do
InitWait ==
    /\ cap = [callers |-> WaitCallers, transports |-> WaitTransports,
              timers |-> WaitTimers, callbacks |-> ApiCallbacks, timed |-> FALSE,
              anyframe |-> FALSE, clock |-> FALSE, acks |-> FALSE]
    /\ Established

Run(self) ==
    \/ ConnectStep(self) \/ DisconnectStep(self) \/ CloseStep(self)
    \/ ReconnectStep(self) \/ OpenStep(self) \/ Err269(self) \/ Ping319(self)

NextWait ==
    \/ CallConnect(<<"c", 1>>) \/ CallDisconnect(<<"c", 2>>)
    \/ \E self \in Threads : Run(self)
    \/ \E self \in WsThreads \cup TimerThreads : Forget(self)
    \/ \E self \in WsThreads :
         \/ RfOpens(self) \/ RfClosed(self) \/ RfTeardown(self) \/ RfExit(self)
    \/ \E self \in TimerThreads : TimerStep(self)

SpecWait ==
    /\ InitWait /\ [][NextWait]_vars
    /\ \A self \in Threads : WF_vars(Run(self))

\* a connection that is up, with one subscription, and no caller: the server
\* closes connections when it likes and refuses attempts when it likes, but
\* not for ever; its pings come in time; every thread that can take a step
\* takes one in the end and every timer that is pending fires
InitLoop ==
    /\ cap = [callers |-> LoopCallers, transports |-> LoopTransports,
              timers |-> LoopTimers, callbacks |-> ApiCallbacks, timed |-> FALSE,
              anyframe |-> FALSE, clock |-> FALSE, acks |-> FALSE]
    /\ Up(Put(EmptyMap, <<"a", ":", "t">>, "f"))
    /\ Untimed

Work(self) ==
    \/ ConnectStep(self) \/ ReconnectStep(self)
    \/ Close251(self) \/ Close256(self) \/ Close260(self) \/ Close262(self)
    \/ OpenStep(self) \/ ErrorStep(self) \/ Ping319(self) \/ SendStep(self)

NextLoop ==
    \/ \E self \in Threads : Work(self) \/ Forget(self)
    \/ \E self \in WsThreads :
         \/ ServerClose(self) \/ RfOpens(self) \/ RfFails(self)
         \/ RfClosed(self) \/ RfTeardown(self) \/ RfExit(self)
    \/ \E self \in TimerThreads : TimerStep(self)

SpecLoop ==
    /\ InitLoop /\ [][NextLoop]_vars
    /\ \A self \in Threads : WF_vars(Work(self)) /\ WF_vars(Forget(self))
    /\ \A self \in TimerThreads : WF_vars(TimerStep(self))
    /\ \A self \in WsThreads :
         WF_vars(RfClosed(self) \/ RfTeardown(self) \/ RfExit(self))
    /\ SF_vars(\E self \in WsThreads : RfOpens(self))

\* time passes
Pass ==
    /\ cap.timed
    /\ now < MaxClock
    /\ now' = now + ClockStep
    /\ UNCHANGED <<reconnect_time, connected_time, disconnected_time, pingDue, auth, cap, status,
                   subscriptions, ws, ws_thread, ws_openlock, subscription_lock,
                   ws_sendlock, pingtimer, pingAge, sock, locals>>

\* the delays of the reconnect timer: a connection that is up and no
\* caller; the server closes the connection and then refuses every attempt,
\* while time passes; the connection was opened after a delay at the ceiling
\* or after the delay one step below it, so that the delays are few
InitDelays ==
    { Over(reconnect_time_max_seconds, reconnect_time_backoff_multiplier),
      Over(Over(reconnect_time_max_seconds, reconnect_time_backoff_multiplier),
           reconnect_time_backoff_multiplier) }

InitBackoff ==
    /\ cap = [callers |-> BackoffCallers, transports |-> BackoffTransports,
              timers |-> BackoffTimers, callbacks |-> ApiCallbacks, timed |-> TRUE,
              anyframe |-> FALSE, clock |-> FALSE, acks |-> FALSE]
    /\ Up(EmptyMap)
    /\ reconnect_time \in InitDelays
    /\ connected_time = 0
    /\ disconnected_time = 0
    /\ now = 0
    /\ pingDue = 0

NextBackoff ==
    \/ \E self \in Threads :
         \/ ConnectStep(self) \/ Rec186(self) \/ Rec207(self) \/ Rfn215(self)
         \/ Close251(self) \/ Close256(self) \/ Close260(self) \/ Close262(self)
         \/ ErrorStep(self) \/ Ping319(self)
    \/ \E self \in WsThreads :
         \/ ServerClose(self) \/ RfFails(self)
         \/ RfClosed(self) \/ RfTeardown(self) \/ RfExit(self)
    \/ \E self \in TimerThreads : TimerStep(self)
    \/ Pass

SpecBackoff == InitBackoff /\ [][NextBackoff]_vars

\* The ping check: a connection that is up, with or without a subscription,
\* the pings of the server, the clock, the checks of __ensure_ping and the
\* closure they lead to, up to the timer of __reconnect.
InitPing ==
    /\ cap = [callers |-> PingCallers, transports |-> PingTransports,
              timers |-> PingTimers, callbacks |-> ApiCallbacks, timed |-> TRUE,
              anyframe |-> FALSE, clock |-> FALSE, acks |-> FALSE]
    /\ \E p \in Pairs : \E f \in {"f"} :
          Up(Put(EmptyMap, Key(p[1], p[2]), f)) \/ Up(EmptyMap)
    /\ reconnect_time \in InitDelays
    /\ connected_time = 0
    /\ disconnected_time = 0
    /\ now = 0
    /\ pingDue = 0

NextPing ==
    \/ \E self \in Threads :
         \/ Ping319(self) \/ Ping322(self)
         \/ Close251(self) \/ Close256(self) \/ Close260(self) \/ Close262(self)
         \/ Rec186(self) \/ Rec207(self)
    \/ \E self \in WsThreads :
         \/ OnPing(self)
         \/ RfClosed(self) \/ Err269(self) \/ RfTeardown(self) \/ RfExit(self)
    \/ \E self \in TimerThreads : TimerPing(self)
    \/ Tick

SpecPing == InitPing /\ [][NextPing]_vars

\* The ping check with its clock: the Timer of __ensure_ping fires
\* connection_ping_timeout seconds after it was started, pings arrive at
\* any beat, and the time a thread takes to run its lines is not counted:
\* the clock moves when no thread has a line to run and no timer is due.
Quiet ==
    /\ \A th \in Callers : pc[th] \in {"idle", "done"}
    /\ \A th \in TimerThreads :
          pc[th] \in {"free", "t_done", "pending_ping", "pending_reconnect"}
    /\ \A th \in WsThreads :
          \/ pc[th] \in {"free", "new"}
          \/ pc[th] = "rf_loop" /\ sock[th[2]]

Clock ==
    /\ cap.clock
    /\ Quiet
    /\ pingAge < MaxAge
    /\ pingtimer > 0 => pingDue > 0
    /\ pingAge' = pingAge + Beat
    /\ pingDue' = IF pingDue > 0 THEN pingDue - Beat ELSE 0
    /\ UNCHANGED <<reconnect_time, connected_time, disconnected_time, now, auth, cap,
                   status, subscriptions, ws, ws_thread, ws_openlock, subscription_lock,
                   ws_sendlock, pingtimer, sock, locals>>

\* the connection has just been opened: __on_open has set lastpingtime and
\* __ensure_ping has started the first timer (lines 241-242)
InitClock ==
    /\ cap = [callers |-> ClockCallers, transports |-> ClockTransports,
              timers |-> ClockTimers, callbacks |-> ApiCallbacks, timed |-> TRUE,
              anyframe |-> FALSE, clock |-> TRUE, acks |-> FALSE]
    /\ \E p \in PlainPairs : Up(Put(EmptyMap, Key(p[1], p[2]), "f")) \/ Up(EmptyMap)
    /\ reconnect_time \in InitDelays
    /\ connected_time = 0
    /\ disconnected_time = 0
    /\ now = 0
    /\ pingDue = connection_ping_timeout

NextClock ==
    \/ \E self \in Threads :
         \/ Ping319(self) \/ Ping322(self)
         \/ Close251(self) \/ Close256(self) \/ Close260(self) \/ Close262(self)
         \/ Rec186(self) \/ Rec207(self)
    \/ \E self \in WsThreads :
         \/ OnPing(self)
         \/ RfClosed(self) \/ Err269(self) \/ RfTeardown(self) \/ RfExit(self)
    \/ \E self \in TimerThreads : TimerPing(self)
    \/ Clock

SpecClock == InitClock /\ [][NextClock]_vars

\* one caller that subscribes, with several callbacks, while the server
\* sends messages on a connection it keeps open
InitMsg ==
    /\ cap = [callers |-> MsgCallers, transports |-> MsgTransports, timers |-> MsgTimers,
              callbacks |-> MsgCallbacks, timed |-> FALSE,
              anyframe |-> FALSE, clock |-> FALSE, acks |-> FALSE]
    /\ Fresh

NextMsg ==
    \/ \E self \in Callers : CallSubscribe(self)
    \/ \E self \in Threads :
         \/ SubscribeStep(self) \/ SendStep(self)
         \/ Con146(self) \/ Con147(self) \/ Con149(self) \/ Con151(self)
         \/ Con155a(self) \/ Con156(self) \/ Con163(self) \/ Con166(self)
         \/ Con167(self) \/ Con168(self) \/ Con170(self) \/ Con171(self)
         \/ Con173(self)
         \/ OpenStep(self) \/ Ping319(self) \/ Forget(self)
    \/ \E self \in WsThreads : RfOpens(self) \/ MessageStep(self)

SpecMsg == InitMsg /\ [][NextMsg]_vars

\* The credentials: the callers connect and one of them sets the
\* credentials, beside the transport, which opens or fails and may be
\* closed by the server, and the timers that reconnect.
InitAuth ==
    /\ cap = [callers |-> AuthCallers, transports |-> AuthTransports,
              timers |-> AuthTimers, callbacks |-> ApiCallbacks, timed |-> FALSE,
              anyframe |-> FALSE, clock |-> FALSE, acks |-> FALSE]
    /\ Fresh

NextAuth ==
    \/ CallSetauth(<<"c", 1>>)
    \/ \E self \in Callers : CallConnect(self)
    \/ \E self \in Threads :
         \/ SetauthStep(self) \/ ConnectStep(self)
         \/ Close251(self) \/ Close256(self) \/ Close260(self) \/ Close262(self)
         \/ ReconnectStep(self) \/ OpenStep(self) \/ ErrorStep(self)
         \/ Ping319(self) \/ Forget(self)
    \/ \E self \in WsThreads :
         \/ RfConnect(self) \/ ServerClose(self) \/ RfClosed(self)
         \/ RfTeardown(self) \/ RfExit(self)
    \/ \E self \in TimerThreads : TimerStep(self)

SpecAuth == InitAuth /\ [][NextAuth]_vars

\* The frames of the server in full: a connection that is up with some of
\* the streams subscribed, frames for every stream, well formed or not, the
\* callback's results, the insert that answers a downlink, and the server
\* closing the socket at any moment.
InitFrame ==
    /\ cap = [callers |-> FrameCallers, transports |-> FrameTransports,
              timers |-> FrameTimers, callbacks |-> ApiCallbacks, timed |-> FALSE,
              anyframe |-> TRUE, clock |-> FALSE, acks |-> FALSE]
    /\ \E S \in SUBSET DownPairs :
          Up([k \in { Key(p[1], p[2]) : p \in S } |-> "f"])
    /\ Untimed

NextFrame ==
    \E self \in WsThreads :
       \/ Msg275(self) \/ MessageStep(self) \/ SendStep(self)
       \/ ServerClose(self)

SpecFrame == InitFrame /\ [][NextFrame]_vars

\* every kind of sender at once: a caller that subscribes, the read loop
\* acknowledging downlink messages, and the reconnect timer resubscribing
\* after the server closed the connection
InitSend ==
    /\ cap = [callers |-> SendCallers, transports |-> SendTransports,
              timers |-> SendTimers, callbacks |-> ApiCallbacks, timed |-> FALSE,
              anyframe |-> FALSE, clock |-> FALSE, acks |-> TRUE]
    /\ Up(Put(EmptyMap, Key(<<"u", "/", "d", "/", "s", "/", "downlink">>, <<>>), "f"))
    /\ Untimed

NextSend ==
    \/ \E self \in Callers : CallSubscribe(self)
    \/ \E self \in Threads : SubscribeStep(self) \/ Work(self) \/ Forget(self)
    \/ \E self \in WsThreads :
         \/ MessageStep(self)
         \/ ServerClose(self) \/ RfOpens(self) \/ RfFails(self)
         \/ RfClosed(self) \/ RfTeardown(self) \/ RfExit(self)
    \/ \E self \in TimerThreads : TimerStep(self)

SpecSend == InitSend /\ [][NextSend]_vars

\* two callers, each making one call of subscribe or unsubscribe, on a
\* connected handler that has one subscription
InitPair ==
    /\ cap = [callers |-> PairCallers, transports |-> PairTransports,
              timers |-> PairTimers, callbacks |-> ApiCallbacks, timed |-> FALSE,
              anyframe |-> FALSE, clock |-> FALSE, acks |-> FALSE]
    /\ Up(Put(EmptyMap, Key(<<"a">>, <<"t">>), "f"))
    /\ Untimed

NextPair ==
    \/ \E self \in Callers : CallSubscribe(self) \/ CallUnsubscribe(self)
    \/ \E self \in Threads :
         \/ SubscribeStep(self) \/ UnsubscribeStep(self) \/ SendStep(self)
         \/ DisconnectStep(self) \/ CloseStep(self)
         \/ Con146(self) \/ Con147(self) \/ Con149(self) \/ Con151(self)
         \/ Con155a(self) \/ Con156(self) \/ Con163(self) \/ Con166(self)
         \/ Con167(self) \/ Con168(self) \/ Con170(self) \/ Con171(self)
         \/ Con173(self)
         \/ OpenStep(self) \/ ErrorStep(self) \/ Ping319(self)
    \/ \E self \in WsThreads :
         \/ RfConnect(self) \/ RfClosed(self) \/ RfTeardown(self) \/ RfExit(self)

SpecPair == InitPair /\ [][NextPair]_vars

\* ============================================================ properties
\* what a log says
Has(l, e) == \E i \in 1..Len(l) : l[i].e = e
IsSend(ev) == ev.e = "send"
Sends(l) == SelectSeq(l, IsSend)
\* the events of a log, without the transports they went to
Kinds(l) == [i \in 1..Len(l) |-> l[i].e]
KeyOf(c) == Key(args[c].stream, args[c].transform)
\* thread c takes a step
Moves(c) == pc'[c] # pc[c] \/ stack'[c] # stack[c]
Same(ev, c, a, t) == ev.e = "send" /\ ev.cmd = c /\ ev.arg = a /\ ev.transform = t

\* ------------------------------------------------------------------- C1
\* C1: a subscribe that returns True has, in this order, connected (when it
\* found the handler not connected; creating the transport itself when it
\* found it disconnected), sent exactly one command {subscribe, stream,
\* transform} to an open transport, and stored the callback under
\* stream + ":" + transform; found connected, it creates no transport.  A
\* subscribe that reads "connected" at line 114 goes on to send, and its
\* send to a transport whose socket is open succeeds; its last step stores
\* the callback and returns True.
C1_State ==
    \A c \in Callers : op[c] = "subscribe" =>
        /\ pc[c] \in {"snd103", "snd104"} =>
             Kinds(log[c]) \in { <<>>, <<"connect">>, <<"connect", "create">> }
        /\ (pc[c] = "sub119" \/ (pc[c] = "done" /\ ret[c] = "True")) =>
             /\ Len(Sends(log[c])) = 1
             /\ Same(Sends(log[c])[1], "subscribe", args[c].stream, args[c].transform)
             /\ Sends(log[c])[1].to \in Transports
        /\ pc[c] = "sub119" =>
             Kinds(log[c]) \in { <<"send">>, <<"connect", "send">>,
                                 <<"connect", "create", "send">> }
        /\ (pc[c] = "done" /\ ret[c] = "True") =>
             /\ Kinds(log[c]) \in { <<"send", "record">>, <<"connect", "send", "record">>,
                                    <<"connect", "create", "send", "record">> }
             /\ log[c][Len(log[c])].arg = KeyOf(c)

C1_Step ==
    \A c \in Callers : (op[c] = "subscribe" /\ Moves(c)) =>
        /\ (pc[c] = "sub112a" /\ status = "disconnected") => pc'[c] = "sub113"
        /\ (pc[c] = "sub112a" /\ status = "connected") => pc'[c] = "sub112b"
        /\ (pc[c] = "sub112b" /\ status = "connected") => pc'[c] = "sub112c"
        /\ (pc[c] = "sub112c" /\ status = "connected") => pc'[c] = "sub114"
        /\ (pc[c] = "sub114" /\ status = "connected") => pc'[c] = "snd103"
        /\ (pc[c] = "snd104" /\ ws > 0 /\ sock[ws]) => pc'[c] = "sub119"
        /\ pc[c] = "sub119" =>
             /\ pc'[c] = "done" /\ ret'[c] = "True"
             /\ KeyOf(c) \in DOMAIN subscriptions'
             /\ subscriptions'[KeyOf(c)] = args[c].cb
             /\ \A k \in DOMAIN subscriptions \ {KeyOf(c)} :
                    k \in DOMAIN subscriptions' /\ subscriptions'[k] = subscriptions[k]

C1_SubscribeConnectsSendsRecords == [](C1_State) /\ [][C1_Step]_vars

\* a subscribe that found the handler disconnected, connected, sent and
\* stored, and returned True
C1_Witness ==
    \E c \in Callers :
        /\ pc[c] = "done" /\ op[c] = "subscribe" /\ ret[c] = "True"
        /\ Kinds(log[c]) = <<"connect", "create", "send", "record">>
        /\ KeyOf(c) \in DOMAIN subscriptions
        /\ status = "connected"

\* ------------------------------------------------------------------- C2
\* C2: a subscribe that reads a status other than "connected" at line 114
\* (its connect attempt did not establish the connection) returns False at
\* once and leaves the mapping as it is; a subscribe that has returned False
\* has sent no command and stored nothing.
C2_State ==
    \A c \in Callers : (op[c] = "subscribe" /\ pc[c] = "done" /\ ret[c] = "False") =>
        ~Has(log[c], "send") /\ ~Has(log[c], "record")

C2_Step ==
    \A c \in Callers : (op[c] = "subscribe" /\ Moves(c)) =>
        /\ (pc[c] = "sub114" /\ status # "connected") =>
             /\ pc'[c] = "done" /\ ret'[c] = "False"
             /\ subscriptions' = subscriptions
        /\ pc[c] # "sub119" => subscriptions' = subscriptions

C2_FailedConnectRegistersNothing == [](C2_State) /\ [][C2_Step]_vars

\* a subscribe whose own connection attempt failed has returned False
C2_Witness ==
    \E c \in Callers :
        /\ pc[c] = "done" /\ op[c] = "subscribe" /\ ret[c] = "False"
        /\ Kinds(log[c]) = <<"connect", "create">>
        /\ status = "errored"

\* ------------------------------------------------------------------- C3
\* C3: a subscribe that finds the handler in a state other than connected
\* calls connect() before it decides: the last of the reads of line 112
\* that sees such a state goes on to line 113.
C3_ConnectInEveryOtherState ==
    [][\A c \in Callers :
          (op[c] = "subscribe" /\ pc[c] = "sub112c" /\ Moves(c)
              /\ status # "connected") => pc'[c] = "sub113"]_vars

\* ------------------------------------------------------------------- C4
\* C4: a connect() called in the errored state starts a new attempt: its
\* test of line 155 leads to the creation of a transport.
C4_ErroredIsRetried ==
    [][\A c \in Callers :
          (op[c] = "connect" /\ pc[c] = "con155b" /\ Moves(c)
              /\ status = "errored") => pc'[c] = "con156"]_vars

\* ------------------------------------------------------------------- C5
\* C5: callers that call connect() at the same time on a disconnected
\* handler converge on one attempt: no two of them create a transport.
C5_OneTransportForAll ==
    \A c, d \in Callers :
        (Has(log[c], "create") /\ Has(log[d], "create")) => c = d

\* ------------------------------------------------------------------- C6
\* C6: the reconnect loop sends nothing on an attempt that failed, and on
\* the attempt that succeeded it has sent, for every mapping entry it has
\* gone through, one subscribe command with the stream and the transform
\* that entry was registered with.
C6_ResubscribesEachEntry ==
    \A t \in TimerThreads : op[t] = "reconnect_fnc" =>
        /\ pc[t] \in {"rfn215", "rec186", "rec207", "rsb222"} => Sends(log[t]) = <<>>
        /\ pc[t] = "rsb223" =>
             LET visited == DOMAIN subscriptions \ todo[t] IN
             /\ Len(Sends(log[t])) = Cardinality(visited)
             /\ \A p \in Pairs : Key(p[1], p[2]) \in visited =>
                    \E i \in 1..Len(Sends(log[t])) :
                        Same(Sends(log[t])[i], "subscribe", p[1], p[2])

\* ------------------------------------------------------------------- C7
\* C7: once a disconnect() that found the handler connected has returned,
\* the status is disconnected and no reconnect timer is pending, until the
\* caller's next call.
C7_DisconnectStopsReconnecting ==
    \A c \in Callers :
        (op[c] = "disconnect" /\ pc[c] = "done" /\ Has(log[c], "close")) =>
            /\ status = "disconnected"
            /\ \A t \in TimerThreads : pc[t] # "pending_reconnect"

\* ------------------------------------------------------------------- C8
\* C8: an unsubscribe that finds its key missing from the mapping at line
\* 134 returns a failure value, raises nothing and leaves the handler as it
\* is, the subscription lock free.
C8_MissingKeyIsRefused ==
    [][\A c \in Callers :
          (op[c] = "unsubscribe" /\ pc[c] = "uns134" /\ Moves(c)
              /\ KeyOf(c) \notin DOMAIN subscriptions) =>
                /\ pc'[c] = "done" /\ ret'[c] = "False"
                /\ subscriptions' = subscriptions /\ status' = status
                /\ ~subscription_lock']_vars

\* ------------------------------------------------------------------- C9
\* C9: an unsubscribe that removes its key has sent exactly one command
\* {unsubscribe, stream, transform} to an open transport before; the removal
\* takes that key and no other out of the mapping and changes neither the
\* status nor a socket; when other keys remain unsubscribe returns there;
\* when none remains it goes on into disconnect(), which, as long as it
\* reads the status it expects (connected at line 176, its own disconnecting
\* at line 260), closes the socket of the transport and returns with the
\* status disconnected.
C9_State ==
    \A c \in Callers : (op[c] = "unsubscribe" /\ Has(log[c], "remove")) =>
        /\ Len(Sends(log[c])) = 1
        /\ Same(log[c][1], "unsubscribe", args[c].stream, args[c].transform)
        /\ log[c][1].to \in Transports
        /\ log[c][2].e = "remove" /\ log[c][2].arg = KeyOf(c)
        /\ Len(log[c]) > 2 => Kinds(log[c]) = <<"send", "remove", "close">>

C9_Step ==
    \A c \in Callers : (op[c] = "unsubscribe" /\ Moves(c)) =>
        /\ (pc[c] = "uns134" /\ KeyOf(c) \in DOMAIN subscriptions) =>
             /\ subscriptions' = Del(subscriptions, KeyOf(c))
             /\ status' = status /\ sock' = sock
             /\ IF DOMAIN subscriptions = {KeyOf(c)}
                THEN pc'[c] = "dis176"
                ELSE pc'[c] = "done"
        /\ (pc[c] = "dis176" /\ status = "connected") => pc'[c] = "dis177"
        /\ pc[c] = "dis177" => (status' = "disconnecting" /\ pc'[c] = "dis178")
        /\ pc[c] = "dis178" => (subscriptions' = EmptyMap /\ pc'[c] = "dis181")
        /\ pc[c] = "dis181" => (pc'[c] = "close251" /\ (ws > 0 => ~sock'[ws]))
        /\ (pc[c] = "close251" /\ status = "disconnecting") => pc'[c] = "close256"
        /\ (pc[c] = "close260" /\ status = "disconnecting") => pc'[c] = "close261"
        /\ pc[c] = "close261" => (status' = "disconnected" /\ pc'[c] = "done")

C9_UnsubscribeRemovesAndTearsDown == [](C9_State) /\ [][C9_Step]_vars

\* the last key went and the connection with it
C9_Witness ==
    \E c \in Callers :
        /\ op[c] = "unsubscribe" /\ pc[c] = "done"
        /\ Kinds(log[c]) = <<"send", "remove", "close">>
        /\ log[c][3].cmd = "open"
        /\ subscriptions = EmptyMap /\ status = "disconnected"
        /\ \A t \in Transports : ~sock[t]

\* ------------------------------------------------------------------ C10
\* C10: an unsubscribe that reads a status other than "connected" at line
\* 125 returns False with that step, which changes neither the mapping nor
\* the status; an unsubscribe that has returned False has sent nothing.
C10_State ==
    \A c \in Callers : (op[c] = "unsubscribe" /\ pc[c] = "done" /\ ret[c] = "False") =>
        log[c] = <<>>

C10_Step ==
    \A c \in Callers : (op[c] = "unsubscribe" /\ Moves(c)
                          /\ pc[c] = "uns125" /\ status # "connected") =>
        /\ pc'[c] = "done" /\ ret'[c] = "False"
        /\ subscriptions' = subscriptions /\ status' = status /\ sock' = sock

C10_NotConnectedUnsubscribeIsRefused == [](C10_State) /\ [][C10_Step]_vars

\* an unsubscribe was refused while the reconnect loop was at work
C10_Witness ==
    \E c \in Callers :
        /\ op[c] = "unsubscribe" /\ pc[c] = "done" /\ ret[c] = "False"
        /\ status = "reconnecting" /\ subscriptions # EmptyMap

\* ------------------------------------------------------------------ C11
\* C11: with a server that accepts every connection, each call of a
\* sequence takes effect on the mapping as the same call on a map does and
\* returns: subscribe finds the handler connected at line 114 and ends by
\* storing its callback under its key; unsubscribe is refused only when its
\* key is not in the mapping, and else ends normally with its key deleted
\* (a key that is not there leaves the map as it is); no other step changes
\* the mapping.
C11_Step ==
    /\ \A c \in Callers : (op[c] = "subscribe" /\ Moves(c)) =>
         /\ pc[c] = "sub114" => status = "connected"
         /\ pc[c] = "sub119" =>
              (subscriptions' = Put(subscriptions, KeyOf(c), args[c].cb) /\ pc'[c] = "done")
    /\ \A c \in Callers : (op[c] = "unsubscribe" /\ Moves(c)) =>
         /\ (pc[c] = "uns125" /\ status # "connected") =>
              KeyOf(c) \notin DOMAIN subscriptions
         /\ pc[c] = "uns134" =>
              /\ subscriptions' = Del(subscriptions, KeyOf(c))
              /\ pc'[c] \in {"done", "dis176"} /\ ret'[c] # "KeyError"
    /\ subscriptions' # subscriptions =>
         \E c \in Callers : Moves(c) /\ pc[c] \in {"sub119", "uns134"}

C11_MappingFollowsTheCalls == [][C11_Step]_vars

\* ------------------------------------------------------------------ C12
\* C12: the store of a subscribe whose key is already in the mapping puts
\* the new callback in the place of the old one and adds no entry; a
\* message looks up the callback that is stored under its key at that
\* moment and calls that callback, once, with the stream of the message.
C12_State ==
    \A w \in WsThreads :
        /\ Len(log[w]) <= 1
        /\ log[w] # <<>> =>
             /\ log[w][1].e = "callback"
             /\ log[w][1].cmd = args[w].cb /\ log[w][1].arg = args[w].stream

C12_Step ==
    /\ \A c \in Callers : (op[c] = "subscribe" /\ pc[c] = "sub119" /\ Moves(c)
                             /\ KeyOf(c) \in DOMAIN subscriptions) =>
         /\ DOMAIN subscriptions' = DOMAIN subscriptions
         /\ subscriptions'[KeyOf(c)] = args[c].cb
         /\ \A k \in DOMAIN subscriptions \ {KeyOf(c)} : subscriptions'[k] = subscriptions[k]
    /\ \A w \in WsThreads : Moves(w) =>
         /\ (pc[w] = "msg284" /\ KeyOf(w) \in DOMAIN subscriptions) =>
              (args'[w].cb = subscriptions[KeyOf(w)] /\ pc'[w] = "msg288")
         /\ pc[w] = "msg288" =>
              /\ Len(log'[w]) = 1 /\ log'[w][1].e = "callback"
              /\ log'[w][1].cmd = args[w].cb

C12_ResubscribeReplacesCallback == [](C12_State) /\ [][C12_Step]_vars

\* the callback "g" has taken the place of "f", and a message for the key
\* has been given to "g"
C12_Witness ==
    \E c \in Callers, w \in WsThreads :
        /\ op[c] = "subscribe" /\ pc[c] = "done" /\ ret[c] = "True"
        /\ args[c].cb = "g"
        /\ log[c][Len(log[c])].e = "record" /\ log[c][Len(log[c])].cmd = "f"
        /\ subscriptions[KeyOf(c)] = "g"
        /\ Cardinality(DOMAIN subscriptions) = 1
        /\ pc[w] = "rf_loop" /\ KeyOf(w) = KeyOf(c)
        /\ Len(log[w]) = 1 /\ log[w][1].cmd = "g"

\* ------------------------------------------------------------------ C13
\* C13: a call of connect returns True exactly when the status it reads at
\* its return is "connected", and the return changes nothing of the
\* handler; a call that finds the handler connected returns True at line
\* 149 having created no transport.
C13_State ==
    \A c \in Callers : (op[c] = "connect" /\ pc[c] = "done") =>
        /\ ret[c] \in {"True", "False", "RuntimeError"}
        /\ (ret[c] = "True" /\ log[c] = <<>>) => ws # 0

C13_Step ==
    \A th \in Threads : (Moves(th) /\ Used(th)) =>
        /\ pc[th] = "con173" =>
             /\ ret'[th] = "True" <=> status = "connected"
             /\ ret'[th] = "False" <=> status # "connected"
             /\ pc'[th] = After(th) /\ status' = status /\ ws' = ws
        /\ (pc[th] = "con149" /\ status = "connected") =>
             /\ ret'[th] = "True" /\ pc'[th] = After(th)
             /\ ~Has(log[th], "create") /\ log'[th] = log[th]
             /\ status' = status /\ ws' = ws
        /\ (pc[th] = "con149" /\ status # "connected") =>
             (pc'[th] = "con151" /\ ret'[th] = ret[th])

C13_ConnectReturnsWhetherConnected == [](C13_State) /\ [][C13_Step]_vars

\* a connect that found the handler connected has returned True, and it has
\* made no transport
C13_Witness ==
    \E c \in Callers :
        /\ op[c] = "connect" /\ pc[c] = "done" /\ ret[c] = "True"
        /\ log[c] = <<>> /\ status = "connected" /\ ws > 0 /\ sock[ws]

\* ------------------------------------------------------------------ C15
\* C15: a disconnect that reads "connected" at line 176 sets the status to
\* "disconnecting", empties the mapping, closes the socket of the transport
\* and, reading "disconnecting" in on_close, sets the status to
\* "disconnected" and returns; the only operation it performs on the
\* transport is that close, it sends no command.
C15_State ==
    \A c \in Callers : op[c] = "disconnect" =>
        /\ ~Has(log[c], "send")
        /\ pc[c] \in {"dis177", "dis178", "dis181"} => log[c] = <<>>
        /\ pc[c] \in {"close251", "close256", "close260", "close261"} =>
             Kinds(log[c]) = <<"close">>
        /\ pc[c] = "done" => Kinds(log[c]) \in {<<>>, <<"close">>}

C15_Step ==
    \A c \in Callers : (op[c] = "disconnect" /\ Moves(c)) =>
        /\ (pc[c] = "dis176" /\ status = "connected") =>
             (pc'[c] = "dis177" /\ UNCHANGED shared)
        /\ pc[c] = "dis177" =>
             /\ status' = "disconnecting" /\ pc'[c] = "dis178"
             /\ subscriptions' = subscriptions /\ sock' = sock
        /\ pc[c] = "dis178" =>
             /\ subscriptions' = EmptyMap /\ pc'[c] = "dis181"
             /\ status' = status /\ sock' = sock
        /\ pc[c] = "dis181" =>
             /\ pc'[c] = "close251" /\ (ws > 0 => ~sock'[ws])
             /\ status' = status /\ subscriptions' = subscriptions
        /\ (pc[c] = "close251" /\ status = "disconnecting") => pc'[c] = "close256"
        /\ (pc[c] = "close260" /\ status = "disconnecting") => pc'[c] = "close261"
        /\ pc[c] = "close261" =>
             /\ status' = "disconnected" /\ pc'[c] = "done"
             /\ subscriptions' = subscriptions /\ sock' = sock

C15_DisconnectClearsAndCloses == [](C15_State) /\ [][C15_Step]_vars

\* a disconnect has closed an open transport and ended disconnected, with
\* the mapping empty
C15_Witness ==
    \E c \in Callers :
        /\ op[c] = "disconnect" /\ pc[c] = "done" /\ ret[c] = "None"
        /\ Len(log[c]) = 1 /\ log[c][1].e = "close" /\ log[c][1].cmd = "open"
        /\ log[c][1].to = ws /\ ws > 0 /\ ~sock[ws]
        /\ status = "disconnected" /\ subscriptions = EmptyMap

\* ------------------------------------------------------------------ C16
\* C16: a disconnect that reads a status other than "connected" at line
\* 176, as the second of two disconnects in a row does, returns at once: it
\* changes nothing of the handler and performs no operation on the
\* transport, neither a close nor a send.
C16_State ==
    \A c \in Callers : (op[c] = "disconnect" /\ pc[c] = "dis176") => log[c] = <<>>

C16_Step ==
    \A c \in Callers :
        (op[c] = "disconnect" /\ Moves(c) /\ pc[c] = "dis176" /\ status # "connected") =>
            /\ pc'[c] = "done" /\ ret'[c] = "None"
            /\ UNCHANGED shared
            /\ log'[c] = <<>>

C16_SecondDisconnectDoesNothing == [](C16_State) /\ [][C16_Step]_vars

\* a disconnect of a handler that an earlier disconnect left disconnected
\* has returned, having done nothing
C16_Witness ==
    \E c \in Callers :
        /\ op[c] = "disconnect" /\ pc[c] = "done" /\ ret[c] = "None"
        /\ log[c] = <<>>
        /\ status = "disconnected" /\ ws > 0 /\ ~sock[ws]

\* ------------------------------------------------------------------ C17
\* C17: a step changes the subscription mapping only when it is the store
\* of a subscribe (line 119), the delete of an unsubscribe (line 134) or
\* the clearing of a disconnect (line 178) made by a caller; the transport's
\* thread, with on_close, on_error and on_open, the ping timer and the
\* reconnect timer, with every attempt they make, leave it as it is.
C17_Step ==
    /\ subscriptions' # subscriptions =>
         \E c \in Callers :
            /\ Moves(c)
            /\ \/ op[c] = "subscribe" /\ pc[c] = "sub119"
               \/ op[c] = "unsubscribe" /\ pc[c] \in {"uns134", "dis178"}
               \/ op[c] = "disconnect" /\ pc[c] = "dis178"
    /\ (\A c \in Callers : ~Moves(c)) => subscriptions' = subscriptions

C17_OnlyTheCallsChangeTheMapping == [][C17_Step]_vars

\* the transport was closed by the server or by the ping timer, a
\* reconnect timer has made a new one and sent the subscriptions again, and
\* the mapping still holds its entry
C17_Witness ==
    \E t \in TimerThreads :
        /\ op[t] = "reconnect_fnc"
        /\ Has(log[t], "create") /\ Has(log[t], "send")
        /\ status = "connected" /\ subscriptions # EmptyMap

\* ------------------------------------------------------------------ C14
\* C14: a connect that reads "disconnecting" at line 151 does not return:
\* it sleeps and enters connect again; once it reads another status there it
\* goes on to line 155, where "disconnected" makes it create a transport as
\* any connect does.  A connect that waits in this way gets out of the wait
\* in the end, as the disconnect that is in progress comes to its end.
C14_Waiting(c) ==
    op[c] = "connect" /\ pc[c] = "con151" /\ status = "disconnecting"

C14_Step ==
    \A c \in Callers : (op[c] = "connect" /\ Moves(c)) =>
        /\ (pc[c] = "con151" /\ status = "disconnecting") =>
             /\ pc'[c] = "con146" /\ ret'[c] = "none" /\ stack'[c] = stack[c]
             /\ Has(log'[c], "wait") /\ UNCHANGED shared
        /\ (pc[c] = "con151" /\ status # "disconnecting") => pc'[c] = "con155a"
        /\ (pc[c] = "con155a" /\ status = "disconnected") => pc'[c] = "con156"
        /\ pc[c] = "con156" => (pc'[c] = "con163" /\ ws' > 0 /\ Has(log'[c], "create"))

C18_Step ==
    \A t \in TimerThreads : (op[t] = "reconnect_fnc" /\ Moves(t)) =>
        /\ (pc[t] = "rfn215" /\ ret[t] # "True") => pc'[t] = "rec186"
        /\ pc[t] = "rec186" => (status' = "reconnecting" /\ pc'[t] = "rec207")
        /\ pc[t] = "rec207" => \E u \in TimerThreads : pc'[u] = "pending_reconnect"

\* a thread waits for a timer or a transport of the bounded pools
C18_PoolsEmpty ==
    \E th \in Threads :
        \/ pc[th] = "con156" /\ FreeTransports = {}
        \/ pc[th] \in {"rec207", "ping319"} /\ FreeTimers = {}

C18_ReconnectsUntilConnected ==
    /\ [][C18_Step]_vars
    /\ (status = "reconnecting") ~> (status = "connected" \/ C18_PoolsEmpty)

\* ------------------------------------------------------------------ C19
\* C19: the delay __reconnect computes after a failed attempt is, before
\* the jitter, the delay before it times the multiplier, or the ceiling if
\* that is less, and so never less than the delay before it; the delay it
\* computes after the closure of a connection that was up for more than 15
\* minutes is, before the jitter, the floor.
C19_Jittered(b) ==
    { IF (b * (10 + j)) \div 10 < reconnect_time_starting_seconds
      THEN reconnect_time_starting_seconds
      ELSE (b * (10 + j)) \div 10 : j \in Jitter }

C19_Grown(t) ==
    IF Times(t, reconnect_time_backoff_multiplier) > reconnect_time_max_seconds
    THEN reconnect_time_max_seconds
    ELSE Times(t, reconnect_time_backoff_multiplier)

C19_Step ==
    \A th \in Threads : (pc[th] = "rec186" /\ Moves(th)) =>
        /\ (th \in TimerThreads /\ op[th] = "reconnect_fnc") =>
             reconnect_time' \in C19_Jittered(C19_Grown(reconnect_time))
        /\ (th \in WsThreads /\ disconnected_time - connected_time > 15 * 60) =>
             reconnect_time' \in C19_Jittered(reconnect_time_starting_seconds)

C19_BackoffGrowsAndResets == [][C19_Step]_vars

\* ------------------------------------------------------------------ C20
\* C20: the delay line 207 gives to the reconnect timer is at least the
\* floor of 1 s and at most the ceiling of 480 s.
C20_Step ==
    \A th \in Threads : (pc[th] = "rec207" /\ Moves(th)) =>
        /\ reconnect_time >= reconnect_time_starting_seconds
        /\ reconnect_time <= reconnect_time_max_seconds

C20_DelayWithinFloorAndCeiling == [][C20_Step]_vars

\* ------------------------------------------------------------------ C21
\* the check of __ensure_ping that a timer thread has made last, with the
\* age of the last ping it read
C21_Checked(th) == log[th] # <<>> /\ log[th][1].e = "check"

C21_State ==
    \A th \in TimerThreads :
        /\ pc[th] = "ping322" => C21_Checked(th)
        /\ C21_Checked(th) /\ (pc[th] = "ping322" \/ Has(log[th], "close"))
              => log[th][1].to > connection_ping_timeout

C21_Step ==
    /\ \A th \in Threads :
          pc[th] = "ping319" /\ Moves(th) /\ pingAge <= connection_ping_timeout
             => /\ pc'[th] # "ping322"
                /\ sock' = sock
                /\ status' = status
                /\ pingtimer' > 0
                /\ pc'[<<"t", pingtimer'>>] = "pending_ping"
    /\ pingAge' < pingAge => pingAge' = 0

\* C21: a ping, like the opening of the connection, sets the age of the last
\* ping to zero, and a check of __ensure_ping that finds this age no larger
\* than connection_ping_timeout closes nothing, changes no status and sets
\* the timer of the next check; a thread goes on to close the transport
\* only after a check that read an age larger than the timeout.
C21_NoFailureWithinTimeout == []C21_State /\ [][C21_Step]_vars

C21_Witness ==
    \E th \in TimerThreads :
        /\ pc[th] = "pending_ping"
        /\ log[th] = <<Event("check", connection_ping_timeout)>>
        /\ pingAge = connection_ping_timeout
        /\ status = "connected"
        /\ ws > 0
        /\ sock[ws]

\* ------------------------------------------------------------------ C22
\* the steps of a thread that runs __ensure_ping, for the values of the
\* status it reads at lines 251, 260 and 262
C22_ThreadStep(th) ==
    /\ pc[th] = "ping319" /\ pingAge > connection_ping_timeout /\ ws # 0
          => pc'[th] = "ping322"
    /\ pc[th] = "ping322"
          => /\ ws > 0 => ~sock'[ws]
             /\ pc'[th] = "close251"
    /\ pc[th] = "close251" /\ status = "connected" => pc'[th] = "close256"
    /\ pc[th] = "close256" => pc'[th] = "close260"
    /\ pc[th] = "close260" /\ status = "connected" => pc'[th] = "close262"
    /\ pc[th] = "close262" /\ status = "connected" => pc'[th] = "rec186"
    /\ pc[th] = "rec186"
          => /\ status' = "reconnecting"
             /\ pc'[th] = "rec207"
    /\ pc[th] = "rec207"
          => \E t \in TimerThreads :
                /\ pc'[t] = "pending_reconnect"
                /\ t = th \/ pc[t] = "free"
    /\ subscriptions' = subscriptions

C22_Step ==
    \A th \in TimerThreads :
        op[th] = "ensure_ping" /\ Moves(th) => C22_ThreadStep(th)

C22_State ==
    (\E t \in TimerThreads : pc[t] = "pending_reconnect")
       => status = "reconnecting"

\* C22: a thread in __ensure_ping that finds the last ping older than the
\* timeout closes the transport and calls __on_close, which, reading the
\* status connected, goes on to __reconnect: the status becomes
\* reconnecting and a timer for __reconnect_fnc is started, and no step of
\* the thread changes the subscriptions.
C22_PingTimeoutReconnects == []C22_State /\ [][C22_Step]_vars

C22_Witness ==
    \E t \in TimerThreads :
        /\ pc[t] = "pending_reconnect"
        /\ status = "reconnecting"
        /\ ~sock[1]
        /\ pc[<<"w", 1>>] = "rf_loop"
        /\ subscriptions # EmptyMap
        /\ pingAge > connection_ping_timeout

\* ------------------------------------------------------------------ C23
\* "u/d/s/downlink" and "u/d/s"
C23_Topic == <<"u", "/", "d", "/", "s", "/", "downlink">>
C23_Target == <<"u", "/", "d", "/", "s">>

\* the callback's result, as the first event of the handler's log
C23_Called(w) == log[w] # <<>> /\ log[w][1].e = "callback"

C23_State ==
    \A w \in WsThreads :
        C23_Called(w) =>
            LET r == log[w][1].d
                acked == r \notin {"False", "None"} /\ log[w][1].arg = C23_Topic
            IN  /\ Len(Sends(log[w])) <= 1
                /\ \A i \in 1..Len(log[w]) :
                      log[w][i].e = "send" =>
                          /\ acked
                          /\ log[w][i].cmd = "insert"
                          /\ log[w][i].arg = C23_Target
                          /\ log[w][i].d = (IF r = "True" THEN "d0" ELSE r)
                /\ ~acked => pc[w] \notin {"snd103", "snd104"}
                /\ acked /\ pc[w] \in {"snd103", "snd104"}
                      => /\ cmd[w].cmd = "insert"
                         /\ cmd[w].arg = C23_Target
                         /\ Sends(log[w]) = <<>>

C23_Step ==
    \A w \in WsThreads :
        /\ pc[w] = "msg288" /\ Moves(w)
           /\ log'[w] # <<>> /\ log'[w][1].e = "callback"
           /\ log'[w][1].d \notin {"False", "None"} /\ args[w].stream = C23_Topic
              => pc'[w] = "snd103"
        /\ pc[w] = "snd104" /\ Moves(w) /\ sock[ws]
              => /\ Len(Sends(log'[w])) = 1
                 /\ pc'[w] = "rf_loop"

\* C23: when the callback of a message for "u/d/s/downlink" (with or
\* without a transform) returns something other than False and None, the
\* handler sends one command, an insert into "u/d/s" that carries the
\* callback's result, or the data of the message when the result is True;
\* for the results False and None, and for a stream that has not exactly
\* three "/" or does not end in "/downlink", it sends nothing.
C23_DownlinkAcknowledged == []C23_State /\ [][C23_Step]_vars

C23_Witness ==
    \E w \in WsThreads :
        /\ pc[w] = "rf_loop"
        /\ Len(log[w]) = 2
        /\ log[w][1].e = "callback"
        /\ log[w][1].d = "True"
        /\ log[w][2].e = "send"
        /\ log[w][2].cmd = "insert"
        /\ log[w][2].arg = C23_Target
        /\ log[w][2].d = "d0"

\* ------------------------------------------------------------------ C24
\* the key lines 279-281 build for the message thread w handles
C24_Key(w) == Key(args[w].stream, args[w].transform)

C24_IsCall(ev) == ev.e = "callback"

C24_State ==
    \A w \in WsThreads :
        /\ Len(SelectSeq(log[w], C24_IsCall)) <= 1
        /\ \A i \in 1..Len(log[w]) :
              log[w][i].e = "callback" =>
                  /\ C24_Key(w) \in DOMAIN subscriptions
                  /\ log[w][i].cmd = subscriptions[C24_Key(w)]
                  /\ log[w][i].arg = args[w].stream
        /\ pc[w] = "msg288" => /\ C24_Key(w) \in DOMAIN subscriptions
                               /\ args[w].cb = subscriptions[C24_Key(w)]
                               /\ log[w] = <<>>

C24_Step ==
    \A w \in WsThreads :
        pc[w] = "msg284" /\ Moves(w) /\ C24_Key(w) \notin DOMAIN subscriptions
           => /\ pc'[w] = "rf_loop"
              /\ log'[w] = <<>>
              /\ cmd' = cmd
              /\ ret' = ret
              /\ ~subscription_lock'
              /\ <<status, subscriptions, ws, ws_thread, ws_openlock, ws_sendlock,
                    pingtimer, pingAge, sock>>' =
                 <<status, subscriptions, ws, ws_thread, ws_openlock, ws_sendlock,
                   pingtimer, pingAge, sock>>

\* C24: the handler looks the callback up under stream + ":" + transform
\* (the transform empty when the message has none) and calls the callback
\* stored under that key, once, with the stream of the message; when the
\* key has no callback the handler returns after releasing the lock, having
\* called nothing, sent nothing, raised nothing and changed no field.
C24_RoutedByKeyOrDropped == []C24_State /\ [][C24_Step]_vars

\* a message for "u/d/s/downlink" with the transform "t" is dropped while
\* the same stream without a transform has a callback
C24_Witness ==
    \E w \in WsThreads :
        /\ pc[w] = "rf_loop"
        /\ args[w].stream = C23_Topic
        /\ args[w].transform = <<"t">>
        /\ C24_Key(w) \notin DOMAIN subscriptions
        /\ Key(C23_Topic, <<>>) \in DOMAIN subscriptions
        /\ log[w] = <<>>
        /\ ~subscription_lock

\* ------------------------------------------------------------------ C25
\* thread w's handler ends with an exception in this step
C25_Raises(w) == log'[w] # log[w] /\ Has(log'[w], "raise")

C25_Step ==
    \A w \in WsThreads :
        C25_Raises(w)
           => /\ shared' = shared
              /\ status' = "connected"
              /\ ~subscription_lock'
              /\ ~ws_sendlock'
              /\ cmd' = cmd
              /\ pc'[w] = "rf_loop"
              /\ ~Has(log'[w], "callback")
              /\ ~Has(log'[w], "send")

C26_Content(a) == IF a = "None" THEN <<>> ELSE <<a>>

C26_InSetauth(c) == pc[c] \in {"auth72", "auth85"}

\* caller c's setauth has returned, and c has made no other call since
C26_Returned(c) == op[c] = "setauth" /\ pc[c] = "done"

C26_State ==
    \A c \in Callers :
        C26_Returned(c) => /\ ret[c] = "None"
                           /\ lists[headers] = C26_Content(args[c].basic_auth)

C26_Step ==
    /\ \A c \in Callers :
          C26_InSetauth(c) /\ Moves(c)
             => /\ <<timing, wshdr, status, subscriptions, ws, ws_thread, ws_openlock,
                      subscription_lock, ws_sendlock, pingtimer, pingAge, sock>>' =
                   <<timing, wshdr, status, subscriptions, ws, ws_thread, ws_openlock,
                     subscription_lock, ws_sendlock, pingtimer, pingAge, sock>>
                /\ \A th \in Threads \ {c} : pc'[th] = pc[th]
                /\ log'[c] = <<>>
                /\ cmd' = cmd
                /\ pc'[c] \in {"auth85", "done"}
                /\ pc'[c] = "done" => ret'[c] = "None"
    /\ \A th \in Threads :
          pc[th] = "con156" /\ Moves(th)
             => /\ wshdr'[ws'] = headers
                /\ \A c \in Callers :
                      C26_Returned(c) =>
                          lists'[wshdr'[ws']] = C26_Content(args[c].basic_auth)

\* C26: setauth returns None, having written self.headers only: no step of
\* it changes the status, the subscriptions, the transport, its socket, a
\* lock or a timer, and none sends; when it has returned self.headers holds
\* the headers of the auth object it was given (none for None), and the
\* transport the next connect() creates, the caller's or a reconnect
\* timer's, is given these headers.
C26_SetauthChangesOnlyHeaders == []C26_State /\ [][C26_Step]_vars

\* after a setauth with the auth object k1, a reconnect timer has created a
\* transport that was given k1 and is now connected
C26_Witness ==
    \E c \in Callers : \E t \in Transports :
        /\ C26_Returned(c)
        /\ args[c].basic_auth = "k1"
        /\ status = "connected"
        /\ ws = t
        /\ sock[t]
        /\ wshdr[t] = headers
        /\ lists[wshdr[t]] = <<"k1">>

\* ------------------------------------------------------------------ C27
\* a timer that was started and has neither fired nor been cancelled
C27_Scheduled(t) == pc[t] \in {"pending_ping", "pending_reconnect"}

\* C27: when a call of disconnect() has returned, whatever the status it
\* found, no ping timer and no reconnect timer is scheduled.
C27_NoTimerAfterDisconnect ==
    \A c \in Callers :
        op[c] = "disconnect" /\ pc[c] = "done"
           => \A t \in TimerThreads : ~C27_Scheduled(t)

\* ------------------------------------------------------------------ C28
\* the edges of the state machine, with those a reconnect attempt takes
\* through connecting and errored
C28_Edges ==
    { <<"disconnected", "connecting">>, <<"connecting", "connected">>,
      <<"connecting", "errored">>, <<"errored", "connecting">>,
      <<"connected", "disconnecting">>, <<"disconnecting", "disconnected">>,
      <<"connected", "reconnecting">>, <<"reconnecting", "connected">>,
      <<"reconnecting", "connecting">>, <<"errored", "reconnecting">> }

C28_Step == status' # status => <<status, status'>> \in C28_Edges

\* C28: whatever the threads do and in whatever order, every change of the
\* status is an edge of the state machine: reconnecting, for one, is never
\* replaced by disconnecting, and connected is never set from disconnected.
C28_StatusFollowsTheMachine == [][C28_Step]_vars

\* ------------------------------------------------------------------ C29
\* the reconnect timers that are pending
C29_Pending == { t \in TimerThreads : pc[t] = "pending_reconnect" }

\* C29: in every reachable state at most one reconnect timer is pending.
C29_OneReconnectTimer == Cardinality(C29_Pending) <= 1

\* ------------------------------------------------------------------ C30
\* C30: no thread writes a command to the transport (line 104) while the
\* subscription lock is held.
C30_Step ==
    \A th \in Threads : pc[th] = "snd104" /\ Moves(th) => ~subscription_lock

C30_NoSendUnderSubscriptionLock == [][C30_Step]_vars

\* ------------------------------------------------------------------ C31
\* a ping arrives in this step (the other step that sets the age of the
\* last ping to zero, line 241 of __on_open, moves a thread)
C31_Ping == pingAge' = 0 /\ pingAge # 0 /\ pc' = pc

\* C31 as stated: every ping sets the time of the last ping and starts the
\* timer of the next check anew, connection_ping_timeout seconds from the
\* ping.
C31_PingReschedulesCheck ==
    [][C31_Ping => pingtimer' > 0 /\ pingDue' = connection_ping_timeout]_vars

C31_Step ==
    /\ C31_Ping
          => /\ pingtimer' = pingtimer
             /\ pingDue' = pingDue
             /\ <<status, subscriptions, ws, ws_thread, sock, locals>>' =
                <<status, subscriptions, ws, ws_thread, sock, locals>>
    /\ \A th \in Threads :
          pc[th] = "ping319" /\ Moves(th) /\ pingAge <= connection_ping_timeout
             => /\ pingtimer' > 0
                /\ pc'[<<"t", pingtimer'>>] = "pending_ping"
                /\ pingDue' = connection_ping_timeout

\* C31 amended: a ping sets the time of the last ping and nothing else, the
\* pending timer of the check and the time it fires at stay as they are;
\* it is the check that starts the timer of the next check,
\* connection_ping_timeout seconds after the check itself, whenever it
\* finds the last ping no older than the timeout.
C31_PingOnlySetsTheTime == [][C31_Step]_vars

\* a ping half a period after the timer was started: the next check comes
\* half a period after the ping
C31_Witness ==
    /\ status = "connected"
    /\ pingtimer > 0
    /\ pc[<<"t", pingtimer>>] = "pending_ping"
    /\ pingAge = 0
    /\ pingDue = Beat

\* ------------------------------------------------------------------ C32
\* no caller is inside a method of the handler
C32_NoCall == \A c \in Callers : pc[c] \in {"idle", "done"}

\* a transport thread that was started and has neither opened nor failed
C32_InFlight == { w \in WsThreads : pc[w] = "rf_connect" }

\* C32: whenever the status is disconnected or errored and no API call is
\* executing, no ping timer is pending, no reconnect timer is pending and
\* no connection attempt is in flight.
C32_NothingPendingWhenDown ==
    status \in {"disconnected", "errored"} /\ C32_NoCall
       => /\ \A t \in TimerThreads :
                pc[t] \notin {"pending_ping", "pending_reconnect"}
          /\ C32_InFlight = {}

\* ------------------------------------------------------------------ C33
\* the shape line 297 asks of a stream: three "/" and the suffix
C33_Shape(s) ==
    /\ Cardinality({ i \in 1..Len(s) : s[i] = "/" }) = 3
    /\ Len(s) >= 2 /\ s[Len(s) - 1] = "/" /\ s[Len(s)] = "downlink"

C33_State ==
    \A w \in WsThreads :
        log[w] # <<>> /\ log[w][1].e = "callback" /\ ~C33_Shape(log[w][1].arg)
           => /\ \A i \in 1..Len(log[w]) : log[w][i].e # "send"
              /\ pc[w] \notin {"snd103", "snd104"}

C33_Step ==
    \A w \in WsThreads :
        pc[w] = "msg288" /\ Moves(w) /\ ~C33_Shape(args[w].stream)
           => /\ pc'[w] # "snd103"
              /\ cmd'[w] = cmd[w]

\* C33: when the callback of a subscribed stream that has fewer or more
\* than three "/", or does not end in "/downlink", has been called, the
\* handler sends no insert command, whatever the callback returned.
C33_OtherShapesSendNothing == []C33_State /\ [][C33_Step]_vars

C33_Witness ==
    \E w \in WsThreads :
        /\ pc[w] = "rf_loop"
        /\ Len(log[w]) = 1
        /\ log[w][1].e = "callback"
        /\ log[w][1].d = "True"
        /\ Count(log[w][1].arg, "/") = 4
        /\ EndsWith(log[w][1].arg, Downlink)

\* ------------------------------------------------------------------ C34
\* the threads at self.ws.send(...), line 104
C34_Sending == { th \in Threads : pc[th] = "snd104" }

\* C34: at most one thread is inside the transport's send, and it holds
\* the send lock.
C34_OneSender ==
    /\ Cardinality(C34_Sending) <= 1
    /\ C34_Sending # {} => ws_sendlock

\* one thread is sending its command while a thread of another kind waits
\* at line 103 with a command of its own
C34_Witness ==
    \E a, b \in Threads :
        /\ a[1] # b[1]
        /\ pc[a] = "snd104"
        /\ pc[b] = "snd103"
        /\ ws_sendlock

\* ------------------------------------------------------------------ C35
\* no thread is inside a method or a callback of the handler
C35_NoOperation ==
    /\ \A c \in Callers : pc[c] \in {"idle", "done"}
    /\ \A t \in TimerThreads :
          pc[t] \in {"free", "t_done", "pending_ping", "pending_reconnect"}
    /\ \A w \in WsThreads : pc[w] \in {"free", "new", "rf_connect", "rf_loop"}

\* C35: whenever no operation is executing, the subscription lock is free:
\* every operation that acquired it has released it, on error exits too.
C35_LockFreeWhenIdle == C35_NoOperation => ~subscription_lock

\* ------------------------------------------------------------------ C36
\* the lines that release ws_openlock: 147 and 171 in connect, 247 in
\* __on_open, 271 in __on_error
C36_Releases == {"con147", "con171", "open247", "err271"}

C36_Step ==
    \A th \in Threads :
        pc[th] \in C36_Releases /\ Moves(th) => ws_openlock

\* a thread has no transport or no timer left to take
C36_PoolsEmpty ==
    \E th \in Threads :
        \/ pc[th] = "con156" /\ FreeTransports = {}
        \/ pc[th] \in {"rec207", "ping319"} /\ FreeTimers = {}

\* C36: the open lock is never released while it is not held, and every
\* call of connect() that waits at line 170 for its attempt goes on from
\* there, with other threads in connect() and error events of transports.
C36_ConnectReturns ==
    /\ [][C36_Step]_vars
    /\ \A th \in Threads :
          (pc[th] = "con170") ~> (pc[th] # "con170" \/ C36_PoolsEmpty)

\* ------------------------------------------------------------------ C37
\* caller c has subscribed and got True, and no other caller has called
\* unsubscribe for the key of c or disconnect()
C37_Subscribed(c) ==
    /\ op[c] = "subscribe" /\ pc[c] = "done" /\ ret[c] = "True"
    /\ \A d \in Callers \ {c} :
          /\ op[d] # "disconnect"
          /\ op[d] = "unsubscribe" => KeyOf(d) # KeyOf(c)

\* C37: a subscription whose subscribe returned True is in the mapping,
\* and the handler is connected, as long as no caller unsubscribes its
\* key or calls disconnect(); an unsubscribe of another key that empties
\* the mapping changes neither.
C37_SubscriptionStays ==
    \A c \in Callers :
        C37_Subscribed(c)
           => /\ KeyOf(c) \in DOMAIN subscriptions
              /\ status = "connected"

\* ------------------------------------------------------------------ C38
\* C38: whenever the status is disconnected, the mapping of subscriptions
\* is empty.
C38_DisconnectedIsEmpty ==
    status = "disconnected" => DOMAIN subscriptions = {}

\* ------------------------------------------------------------------ C39
\* the keys lines 120 and 134 build are different for different pairs
C39_KeysDiffer ==
    \A p, q \in Pairs : p # q => Key(p[1], p[2]) # Key(q[1], q[2])

\* the command __resubscribe builds for a key is the pair of that key
C39_Step ==
    \A t \in Threads :
        pc[t] = "rsb223" /\ pc'[t] = "snd103"
           => \A p \in Pairs :
                 todo[t] \ todo'[t] = {Key(p[1], p[2])}
                    => /\ cmd'[t].cmd = "subscribe"
                       /\ cmd'[t].arg = p[1]
                       /\ cmd'[t].transform = p[2]

\* C39: two different pairs of stream and transform never have the same
\* key, and the subscribe command __resubscribe sends for the key of a
\* pair carries that pair's stream and that pair's transform.
C39_KeyRoundTrips == []C39_KeysDiffer /\ [][C39_Step]_vars

\* ------------------------------------------------------------------ C40
\* the handler is connected only while the last ping is no older than
\* twice the timeout; once it is older, the reconnection has been started
C40_State ==
    /\ status = "connected" => pingAge <= 2 * connection_ping_timeout
    /\ pingAge > 2 * connection_ping_timeout
          => /\ status = "reconnecting"
             /\ \E t \in TimerThreads : pc[t] = "pending_reconnect"

\* the check that finds the last ping older than the timeout closes the
\* transport
C40_Step ==
    \A th \in Threads :
        pc[th] = "ping319" /\ Moves(th) /\ pingAge > connection_ping_timeout /\ ws # 0
           => pc'[th] = "ping322"

\* C40: when the handler is connected and the last ping was received at
\* time T, the check has closed the transport and started the reconnection
\* no later than T + 2 * connection_ping_timeout.
C40_DetectedWithinTwoTimeouts == []C40_State /\ [][C40_Step]_vars

\* the last check passed with the ping exactly one timeout old, and the
\* next one, at twice the timeout, has started the reconnection
C40_Witness ==
    /\ status = "reconnecting"
    /\ pingAge = 2 * connection_ping_timeout
    /\ \E t \in TimerThreads : pc[t] = "pending_reconnect"
    /\ Quiet

====
